---------------------------- MODULE Spec2Model ----------------------------
(***************************************************************************)
(* A model of the ghost-auth trust and data core: the encrypted vault      *)
(* store (storage.rs), the merge engine and sync history (sync.rs), the    *)
(* pairing transport (sync_transport.rs, sync_ws.rs) and the sync commands *)
(* that glue them together (commands.rs), with the backup codec           *)
(* (backup.rs), the key loading (keystore.rs) and the PIN lock (pin.rs).   *)
(*                                                                         *)
(* Several specifications share the module:                                  *)
(*   SpecMerge  the pure function sync::merge on bounded inputs            *)
(*   Spec       the vault, the session slot and the sync commands          *)
(*   SpecConfirm  sync_confirm on every pending merge within the bounds    *)
(*   SpecHs     the listener's accept loop, the handshake and the exchange *)
(*   SpecHsFair SpecHs with every thread running and time passing          *)
(*   SpecStore  the vault file under open, close and the Storage methods   *)
(*   SpecRetention  one account over the days: deleted, pruned, synced     *)
(*   SpecSlot   the session slot under sync_start, sync_join, sync_confirm *)
(*   SpecUi     one host command on two vaults that differ in secrets      *)
(*   SpecBackup export_accounts and import_accounts (backup.rs)            *)
(*   SpecReorder  Storage::reorder on every id list within the bounds      *)
(*   SpecDelete   Storage::delete of a stored or an unknown id             *)
(*   SpecKey    load_or_create_key over several startups (keystore.rs)     *)
(*   SpecPin    the PIN rate limit over attempts, restarts and time        *)
(*   SpecFrame  send_payload and recv_payload on both transports           *)
(*   SpecSession  the session keys of the connections made with one code   *)
(*   SpecImport   deduplicate_and_import on every import list in the bounds *)
(*   SpecConfirms several sync_confirm calls at once on the session slot   *)
(*   SpecDevice   the device_id over opens, saves and drops of the vault   *)
(*   SpecConverge one sync between two devices without tombstones          *)
(***************************************************************************)
EXTENDS Integers, Sequences, FiniteSets, TLC

VARIABLES
    mergeIn,    \* SpecMerge: the arguments of one call of sync::merge
    mergeOut,   \* SpecMerge: {} before the call, {MergeResult} after it
    accounts,   \* Storage.accounts
    tombstones, \* Storage.tombstones
    disk,       \* the payload last written to accounts.enc
    now,        \* the wall clock read by now_secs(), in days
    history,    \* sync_history.json: peer device id -> Option<last sync>
    slot,       \* SyncManager.inner: Option<ActiveSync>
    sessions,   \* how many session ids have been drawn so far
    bg,         \* the accept threads spawned by sync_start, by session id
    join,       \* the sync_join call in progress
    cf,         \* the sync_confirm call in progress (SpecConfirms: the calls)
    minted,     \* the account ids drawn so far, here or on the peer
    peerKnows,  \* the ids of the accounts the peer has held so far
    clock,      \* SpecHs: Instant::now(), in units of IO_TIMEOUT
    lst,        \* SpecHs: the accept thread: accept_any, then the exchange
    peers,      \* SpecHs: the devices that dial the listener, by number
    backlog,    \* SpecHs: the connections the listener has not accepted yet
    files,      \* SpecStore: accounts.enc, accounts.enc.tmp and accounts.enc.bak
    store,      \* SpecStore: the Storage value: open or not, its key, the last call
    deletedAt,  \* SpecRetention: history variable, id -> Option<time of its last deletion>
    pin,        \* SpecPin: the PinManager's files, its clock and the last call
    keys,       \* SpecKey: the keystore, the legacy key file and the last startup
    conns,      \* SpecSession: the connections made with one sync code
    device,     \* SpecDevice: the vault file, the Storage opened on it, its device_id
    callIn,     \* the arguments of one call of a pure function
    callOut     \* {} before that call, {its result} after it

mergeVars == <<mergeIn, mergeOut>>

hsVars == <<clock, lst, peers, backlog>>

fileVars == <<files, store, deletedAt>>

auxVars == <<pin, keys, conns, device, callIn, callOut>>

restVars == <<mergeIn, mergeOut, accounts, tombstones, disk, now, history, slot,
              sessions, bg, join, cf, minted, peerKnows>>

vaultVars == <<accounts, tombstones, disk, now, history, slot,
               sessions, bg, join, cf, minted, peerKnows>>

vars == <<mergeIn, mergeOut, accounts, tombstones, disk, now, 
          history, slot, sessions, bg, join, cf, minted, peerKnows,
          clock, lst, peers, backlog, files, store, deletedAt,
          pin, keys, conns, device, callIn, callOut>>

(***************************************************************************)
(* Option<T>: None is {}, Some(v) is {v}.                                  *)
(***************************************************************************)
None == {}

Some(v) == {v}

unwrap_or(opt, default) == IF opt = {} THEN default ELSE CHOOSE v \in opt : TRUE

Range(s) == {s[i] : i \in 1..Len(s)}

(***************************************************************************)
(* Accounts and tombstones (storage.rs).  Of an account the model keeps    *)
(* the id, the issuer (standing for every field a user or a peer edits)    *)
(* and last_modified.                                                      *)
(***************************************************************************)
Account(id, issuer, lm) == [id |-> id, issuer |-> issuer, last_modified |-> lm]

Tombstone(id, at) == [id |-> id, deleted_at |-> at]

Ids(s) == {s[i].id : i \in 1..Len(s)}

(***************************************************************************)
(* iter().map(|x| (x.id, ..)).collect::<HashMap>(): a later entry of the   *)
(* list overwrites an earlier one with the same id, so a key maps to the   *)
(* last element that carries it.                                           *)
(***************************************************************************)
HashMapGet(s, id) ==
    LET hits == {i \in 1..Len(s) : s[i].id = id}
    IN  IF hits = {} THEN None
        ELSE Some(s[CHOOSE i \in hits : \A j \in hits : j <= i])

(***************************************************************************)
(* sync::merge.  The loop over the remote accounts, one account a step.    *)
(***************************************************************************)
EmptyMerge ==
    [to_add |-> <<>>, conflicts |-> <<>>, remote_deletions |-> <<>>,
     auto_updated |-> <<>>, unchanged |-> 0]

\* ClassifyRemote without the `last_sync > 0` guard of the conflict test.
ClassifyRemoteNoGuard(local_accounts, local_tombstones, remote, last_sync) ==
    LET tomb  == HashMapGet(local_tombstones, remote.id)
        local == HashMapGet(local_accounts, remote.id)
    IN  IF tomb # None /\ unwrap_or(tomb, remote).deleted_at >= remote.last_modified
          THEN "unchanged"
        ELSE IF local = None THEN "to_add"
        ELSE LET l == unwrap_or(local, remote)
             IN  IF l.last_modified = remote.last_modified THEN "unchanged"
                 ELSE IF /\ l.last_modified > last_sync
                         /\ remote.last_modified > last_sync
                   THEN "conflicts"
                 ELSE IF remote.last_modified > l.last_modified THEN "auto_updated"
                 ELSE "unchanged"

\* ClassifyRemote without the test of the local tombstone.
ClassifyRemoteNoTombstone(local_accounts, local_tombstones, remote, last_sync) ==
    LET local == HashMapGet(local_accounts, remote.id)
    IN  IF local = None THEN "to_add"
        ELSE LET l == unwrap_or(local, remote)
             IN  IF l.last_modified = remote.last_modified THEN "unchanged"
                 ELSE IF /\ l.last_modified > last_sync
                         /\ remote.last_modified > last_sync
                         /\ last_sync > 0
                   THEN "conflicts"
                 ELSE IF remote.last_modified > l.last_modified THEN "auto_updated"
                 ELSE "unchanged"

ClassifyRemote(local_accounts, local_tombstones, remote, last_sync) ==
    LET tomb  == HashMapGet(local_tombstones, remote.id)
        local == HashMapGet(local_accounts, remote.id)
    IN  IF tomb # None /\ unwrap_or(tomb, remote).deleted_at >= remote.last_modified
          THEN "unchanged"
        ELSE IF local = None THEN "to_add"
        ELSE LET l == unwrap_or(local, remote)
             IN  IF l.last_modified = remote.last_modified THEN "unchanged"
                 ELSE IF /\ l.last_modified > last_sync
                         /\ remote.last_modified > last_sync
                         /\ last_sync > 0
                   THEN "conflicts"
                 ELSE IF remote.last_modified > l.last_modified THEN "auto_updated"
                 ELSE "unchanged"

RECURSIVE MergeAccounts(_, _, _, _, _)
MergeAccounts(local_accounts, local_tombstones, remote_accounts, last_sync, acc) ==
    IF remote_accounts = <<>> THEN acc
    ELSE LET remote == Head(remote_accounts)
             class  == ClassifyRemote(local_accounts, local_tombstones, remote, last_sync)
             next   ==
                 CASE class = "to_add" ->
                        [acc EXCEPT !.to_add = Append(@, remote)]
                   [] class = "conflicts" ->
                        [acc EXCEPT !.conflicts = Append(@,
                            [local  |-> unwrap_or(HashMapGet(local_accounts, remote.id), remote),
                             remote |-> remote])]
                   [] class = "auto_updated" ->
                        [acc EXCEPT !.auto_updated = Append(@, remote)]
                   [] OTHER ->
                        [acc EXCEPT !.unchanged = @ + 1]
         IN  MergeAccounts(local_accounts, local_tombstones, Tail(remote_accounts),
                           last_sync, next)

(***************************************************************************)
(* The loop over remote_tombstone_set, a HashMap: its keys are visited in  *)
(* an order the program does not fix, given here as `order`, a sequence    *)
(* holding every key once.                                                 *)
(***************************************************************************)
RECURSIVE RemoteDeletions(_, _, _)
RemoteDeletions(local_accounts, remote_tombstones, order) ==
    IF order = <<>> THEN <<>>
    ELSE LET id    == Head(order)
             tomb  == unwrap_or(HashMapGet(remote_tombstones, id), Tombstone(id, 0))
             local == HashMapGet(local_accounts, id)
             rest  == RemoteDeletions(local_accounts, remote_tombstones, Tail(order))
         IN  IF local # None /\ tomb.deleted_at > unwrap_or(local, tomb).last_modified
               THEN <<unwrap_or(local, tomb)>> \o rest
               ELSE rest

KeyOrders(s) ==
    {o \in UNION {[1..n -> Ids(s)] : n \in {Cardinality(Ids(s))}} :
        \A i, j \in 1..Len(o) : i # j => o[i] # o[j]}

merge(local_accounts, local_tombstones, remote_accounts, remote_tombstones, last_sync_with_peer, order) ==
    LET last_sync == unwrap_or(last_sync_with_peer, 0)
        classified == MergeAccounts(local_accounts, local_tombstones,
                                    remote_accounts, last_sync, EmptyMerge)
    IN  [classified EXCEPT !.remote_deletions =
            RemoteDeletions(local_accounts, remote_tombstones, order)]

(***************************************************************************)
(* Storage (storage.rs).  A storage value is the pair of in-memory lists;  *)
(* every mutating method changes the lists and then calls save, which      *)
(* prunes the tombstones in memory and writes the file.                    *)
(***************************************************************************)
TOMBSTONE_RETENTION_DAYS == 90

saturating_sub(a, b) == IF a >= b THEN a - b ELSE 0

\* A pruning that drops the tombstone made exactly at the cutoff.
PruneStrict(tombs, t) ==
    SelectSeq(tombs, LAMBDA x : x.deleted_at > saturating_sub(t, TOMBSTONE_RETENTION_DAYS))

\* save, lines 217-219: tombstones.retain(|t| t.deleted_at >= cutoff)
Prune(tombs, t) ==
    SelectSeq(tombs, LAMBDA x : x.deleted_at >= saturating_sub(t, TOMBSTONE_RETENTION_DAYS))

\* iter().position(|a| a.id == id): the first index, 0 for None
Position(accs, id) ==
    IF id \in Ids(accs) THEN CHOOSE i \in 1..Len(accs) :
                                /\ accs[i].id = id
                                /\ \A j \in 1..(i - 1) : accs[j].id # id
    ELSE 0

StorageAdd(st, account, t) ==
    [st EXCEPT !.accounts = Append(@, [account EXCEPT !.last_modified = t])]

StorageDelete(st, id, t) ==
    [accounts   |-> SelectSeq(st.accounts, LAMBDA a : a.id # id),
     tombstones |-> Append(st.tombstones, Tombstone(id, t))]

StorageUpdate(st, id, issuer, t) ==
    [st EXCEPT !.accounts[Position(st.accounts, id)] =
        [@ EXCEPT !.issuer = issuer, !.last_modified = t]]

RECURSIVE ReorderListed(_, _)
ReorderListed(accs, ids) ==
    IF ids = <<>> THEN <<>>
    ELSE LET pos == Position(accs, Head(ids))
         IN  (IF pos = 0 THEN <<>> ELSE <<accs[pos]>>) \o ReorderListed(accs, Tail(ids))

StorageReorder(st, ids) ==
    [st EXCEPT !.accounts =
        ReorderListed(st.accounts, ids)
        \o SelectSeq(st.accounts, LAMBDA a : a.id \notin Range(ids))]

StorageAddSynced(st, account) ==
    [st EXCEPT !.accounts = Append(@, account)]

StorageReplace(st, account) ==
    [st EXCEPT !.accounts[Position(st.accounts, account.id)] = account]

\* What save leaves in memory: the lists with the old tombstones pruned.
Saved(st, t) == [st EXCEPT !.tombstones = Prune(@, t)]

(***************************************************************************)
(* Bounds of Spec.                                                         *)
(***************************************************************************)
MaxTime == 2

MaxTombstones == 1

MaxSessions == 2

Times == 0..MaxTime

\* The peer's clock may run ahead of this device's.
RemoteTimes == 0..(MaxTime + 1)

\* The ids uuid::Uuid::new_v4 can draw, on this device or on the peer;
\* no id is drawn twice.
AllIds == {"a"}

PeerIds == {"P"}

Storage == [accounts |-> accounts, tombstones |-> tombstones]

\* A mutating Storage method on the live vault: the lists as the method
\* left them, then save, which fails (an I/O error) or replaces the file.
Commit(st, fail) ==
    /\ accounts' = st.accounts
    /\ tombstones' = Prune(st.tombstones, now)
    /\ disk' = IF fail THEN disk ELSE Saved(st, now)

syncVars == <<history, slot, sessions, bg, join, cf, peerKnows>>

\* add_account_manual: a new uuid, Storage::add
AddAccount ==
    \E id \in AllIds \ minted, fail \in BOOLEAN :
        /\ Commit(StorageAdd(Storage, Account(id, "L", 0), now), fail)
        /\ minted' = minted \cup {id}
        /\ UNCHANGED <<auxVars, fileVars, hsVars, mergeIn, mergeOut, now, syncVars>>

\* delete_account: Storage::delete, whether or not the id is stored.  An
\* id the caller names is one no later uuid equals.
DeleteAccount(ids) ==
    \E id \in ids, fail \in BOOLEAN :
        /\ Len(tombstones) < MaxTombstones
        /\ Commit(StorageDelete(Storage, id, now), fail)
        /\ minted' = minted \cup {id}
        /\ UNCHANGED <<auxVars, fileVars, hsVars, mergeIn, mergeOut, now, syncVars>>

\* edit_account: Storage::update; "Account not found" changes nothing
EditAccount ==
    \E id \in AllIds, fail \in BOOLEAN :
        /\ Position(accounts, id) # 0
        /\ Commit(StorageUpdate(Storage, id, "L", now), fail)
        /\ UNCHANGED <<auxVars, fileVars, hsVars, mergeIn, mergeOut, now, minted, syncVars>>

ReorderInputs == {<<>>} \cup {<<i>> : i \in AllIds}

\* reorder_accounts: Storage::reorder
ReorderAccounts ==
    \E ids \in ReorderInputs, fail \in BOOLEAN :
        /\ Commit(StorageReorder(Storage, ids), fail)
        /\ UNCHANGED <<auxVars, fileVars, hsVars, mergeIn, mergeOut, now, minted, syncVars>>

\* The clock moves on.
Tick ==
    /\ now < MaxTime
    /\ now' = now + 1
    /\ UNCHANGED <<auxVars, fileVars, hsVars, mergeIn, mergeOut, accounts, tombstones, disk, minted, syncVars>>


(***************************************************************************)
(* The sync commands (commands.rs).  The session slot is an                *)
(* Option<ActiveSync>; a phase is one of WaitingForPeer, Exchanging,       *)
(* MergeReady and Failed.                                                  *)
(***************************************************************************)
PendingMerge(dev, mr) == [remote_device_id |-> dev, merge_result |-> mr]

ActiveSync(sid, phase, pending) ==
    [session_id |-> sid, phase |-> phase, pending |-> pending]

SlotIs(sid) == slot # None /\ unwrap_or(slot, ActiveSync(0, "", None)).session_id = sid

IdleJoin == [pc |-> "idle", session_id |-> 0, pending |-> None]

\* remote_device_id and merge_result are the two parts sync_confirm takes
\* its pending merge apart into; decisions is the HashMap built from the
\* argument of the call.
IdleConfirm ==
    [pc |-> "idle", remote_device_id |-> "", merge_result |-> None,
     decisions |-> <<>>, err |-> ""]

\* What the peer can send: accounts it drew itself or was sent earlier.
RemoteAccountLists(ids) ==
    {<<>>} \cup {<<Account(i, "R", t)>> : i \in ids, t \in RemoteTimes}

RemoteTombstoneLists(ids) ==
    {<<>>} \cup {<<Tombstone(i, t)>> : i \in ids, t \in RemoteTimes}

RemotePayloads(ids) ==
    [device_id : PeerIds, accounts : RemoteAccountLists(ids),
     tombstones : RemoteTombstoneLists(ids)]

\* The merge each side computes once the payloads are exchanged
\* (sync_start lines 870-879, sync_join lines 1001-1010).
MergeWith(local_accounts, local_tombstones, payload, order) ==
    PendingMerge(payload.device_id,
                 merge(local_accounts, local_tombstones, payload.accounts,
                       payload.tombstones, history[payload.device_id], order))

\* sync_start: under the slot's lock, refuse a second session, snapshot the
\* vault, fill the slot and spawn the accept thread.
SyncStart ==
    /\ slot = None
    /\ sessions < MaxSessions
    /\ sessions' = sessions + 1
    /\ slot' = Some(ActiveSync(sessions + 1, "WaitingForPeer", None))
    /\ bg' = bg @@ ((sessions + 1) :>
                      [pc |-> "accept", accounts |-> accounts, tombstones |-> tombstones])
    /\ UNCHANGED <<auxVars, fileVars, hsVars, mergeIn, mergeOut, accounts, tombstones, disk, now, history, join, cf,
                   minted, peerKnows>>

\* An accept thread that writes the phase without comparing session ids.
SetPhaseUnchecked(sid, phase, pending) ==
    IF slot # None
      THEN Some([unwrap_or(slot, ActiveSync(0, "", None)) EXCEPT
                   !.phase = phase,
                   !.pending = IF pending = None THEN @ ELSE pending])
      ELSE slot

\* The slot after a thread of session sid sets the phase, which it does
\* only while the slot holds its own session.
SetPhase(sid, phase, pending) ==
    IF SlotIs(sid)
      THEN Some([unwrap_or(slot, ActiveSync(0, "", None)) EXCEPT
                   !.phase = phase,
                   !.pending = IF pending = None THEN @ ELSE pending])
      ELSE slot

Exit(sid) == [s \in DOMAIN bg \ {sid} |-> bg[s]]

\* The accept thread, lines 800-820: accept_any returns a connection or an error.
BgAccept(sid) ==
    /\ sid \in DOMAIN bg
    /\ bg[sid].pc = "accept"
    /\ \/ /\ slot' = SetPhase(sid, "Exchanging", None)
          /\ bg' = [bg EXCEPT ![sid].pc = "exchange"]
       \/ /\ slot' = SetPhase(sid, "Failed", None)
          /\ bg' = Exit(sid)
    /\ UNCHANGED <<auxVars, fileVars, hsVars, mergeIn, mergeOut, accounts, tombstones, disk, now, history, sessions,
                   join, cf, minted, peerKnows>>

\* The accept thread, lines 822-898: receive, send, decrypt, merge the
\* snapshot taken by sync_start with what the peer sent.
BgExchange(sid) ==
    /\ sid \in DOMAIN bg
    /\ bg[sid].pc = "exchange"
    /\ \/ /\ slot' = SetPhase(sid, "Failed", None)
          /\ \E sent \in BOOLEAN :
               peerKnows' = IF sent THEN peerKnows \cup Ids(bg[sid].accounts) ELSE peerKnows
       \/ \E payload \in RemotePayloads(peerKnows) :
          \E order \in KeyOrders(payload.tombstones) :
            /\ slot' = SetPhase(sid, "MergeReady",
                          Some(MergeWith(bg[sid].accounts, bg[sid].tombstones, payload, order)))
            /\ peerKnows' = peerKnows \cup Ids(bg[sid].accounts)
    /\ bg' = Exit(sid)
    /\ UNCHANGED <<auxVars, fileVars, hsVars, mergeIn, mergeOut, accounts, tombstones, disk, now, history, sessions,
                   join, cf, minted>>

\* sync_join, lines 960-968: the slot is locked, found empty, and unlocked.
JoinCheck ==
    /\ join.pc = "idle"
    /\ slot = None
    /\ sessions < MaxSessions
    /\ sessions' = sessions + 1
    /\ join' = [pc |-> "connect", session_id |-> sessions + 1, pending |-> None]
    /\ UNCHANGED <<auxVars, fileVars, hsVars, mergeIn, mergeOut, accounts, tombstones, disk, now, history, slot, bg, cf,
                   minted, peerKnows>>

\* sync_join, lines 970-1012: connect, snapshot the vault, send, receive,
\* decrypt and merge; any error returns it.
JoinExchange ==
    /\ join.pc = "connect"
    /\ \/ /\ join' = IdleJoin
          /\ \E sent \in BOOLEAN :
               peerKnows' = IF sent THEN peerKnows \cup Ids(accounts) ELSE peerKnows
       \/ \E payload \in RemotePayloads(peerKnows) :
          \E order \in KeyOrders(payload.tombstones) :
            /\ join' = [join EXCEPT !.pc = "install",
                          !.pending = Some(MergeWith(accounts, tombstones, payload, order))]
            /\ peerKnows' = peerKnows \cup Ids(accounts)
    /\ UNCHANGED <<auxVars, fileVars, hsVars, mergeIn, mergeOut, accounts, tombstones, disk, now, history, slot, sessions,
                   bg, cf, minted>>

\* sync_join, lines 1014-1026: the slot is locked again and overwritten.
JoinInstall ==
    /\ join.pc = "install"
    /\ slot' = Some(ActiveSync(join.session_id, "MergeReady", join.pending))
    /\ join' = IdleJoin
    /\ UNCHANGED <<auxVars, fileVars, hsVars, mergeIn, mergeOut, accounts, tombstones, disk, now, history, sessions, bg,
                   cf, minted, peerKnows>>

\* add_account_manual on the peer: a new uuid.
PeerAdd ==
    \E id \in AllIds \ minted :
        /\ minted' = minted \cup {id}
        /\ peerKnows' = peerKnows \cup {id}
        /\ UNCHANGED <<auxVars, fileVars, hsVars, mergeIn, mergeOut, accounts, tombstones, disk, now, history, slot,
                       sessions, bg, join, cf>>

\* sync_cancel
SyncCancel ==
    /\ slot # None
    /\ slot' = None
    /\ UNCHANGED <<auxVars, fileVars, hsVars, mergeIn, mergeOut, accounts, tombstones, disk, now, history, sessions, bg,
                   join, cf, minted, peerKnows>>

(***************************************************************************)
(* sync_confirm.  The decisions are collected in a HashMap (a later        *)
(* decision for an id overwrites an earlier one); the storage calls are    *)
(* made in the order to_add, auto_updated, conflicts, remote_deletions,    *)
(* each one saving the vault, and the first error is returned.             *)
(***************************************************************************)
DecisionActions == {"keep_local", "keep_remote", "delete"}

MergeDecision(id, action) == [id |-> id, action |-> action]

DecisionLists(ids) ==
    {<<>>}
    \cup {<<MergeDecision(i, x)>> : i \in ids, x \in DecisionActions}
    \cup {<<MergeDecision(i, x), MergeDecision(j, y)>> :
            i \in ids, j \in ids, x \in DecisionActions, y \in DecisionActions}

\* line 1088: the HashMap from account id to action
decision_map(decisions) ==
    [id \in Ids(decisions) |->
        unwrap_or(HashMapGet(decisions, id), MergeDecision(id, "")).action]

\* HashMap::get
MapGet(map, key) == IF key \in DOMAIN map THEN Some(map[key]) ELSE None

AddSyncedOp(account) == [kind |-> "add_synced", id |-> account.id, account |-> Some(account)]

ReplaceOp(account) == [kind |-> "replace_account", id |-> account.id, account |-> Some(account)]

DeleteOp(id) == [kind |-> "delete", id |-> id, account |-> None]

\* ConflictOps with keep_remote as the default for a conflict without a
\* decision.
RECURSIVE ConflictOpsDefaultRemote(_, _)
ConflictOpsDefaultRemote(conflicts, map) ==
    IF conflicts = <<>> THEN <<>>
    ELSE LET conflict == Head(conflicts)
             d == MapGet(map, conflict.local.id)
         IN  (IF d \in {None, Some("keep_remote")} THEN <<ReplaceOp(conflict.remote)>>
              ELSE IF d = Some("delete") THEN <<DeleteOp(conflict.local.id)>>
              ELSE <<>>)
             \o ConflictOpsDefaultRemote(Tail(conflicts), map)

RECURSIVE ConflictOps(_, _)
ConflictOps(conflicts, map) ==
    IF conflicts = <<>> THEN <<>>
    ELSE LET conflict == Head(conflicts)
             d == MapGet(map, conflict.local.id)
         IN  (IF d = Some("keep_remote") THEN <<ReplaceOp(conflict.remote)>>
              ELSE IF d = Some("delete") THEN <<DeleteOp(conflict.local.id)>>
              ELSE <<>>)
             \o ConflictOps(Tail(conflicts), map)

DeletionOps(remote_deletions, map) ==
    LET decided == SelectSeq(remote_deletions, LAMBDA a : MapGet(map, a.id) = Some("delete"))
    IN  [i \in 1..Len(decided) |-> DeleteOp(decided[i].id)]

ConfirmOps(mr, map) ==
    [i \in 1..Len(mr.to_add) |-> AddSyncedOp(mr.to_add[i])]
    \o [i \in 1..Len(mr.auto_updated) |-> ReplaceOp(mr.auto_updated[i])]
    \o ConflictOps(mr.conflicts, map)
    \o DeletionOps(mr.remote_deletions, map)

StorageOp(st, op, t) ==
    CASE op.kind = "add_synced"      -> StorageAddSynced(st, unwrap_or(op.account, op))
      [] op.kind = "replace_account" -> StorageReplace(st, unwrap_or(op.account, op))
      [] OTHER                       -> StorageDelete(st, op.id, t)

\* r = [mem, disk, err]: the vault in memory, the vault on disk, and the
\* error of the `?` that ended the loop ("" while none has).  The save of
\* the failAt-th call fails (none if failAt = 0).
\* ApplyOps without the `?`: a storage call that fails is passed over.
RECURSIVE ApplyOpsKeepGoing(_, _, _, _, _)
ApplyOpsKeepGoing(r, ops, i, failAt, t) ==
    IF ops = <<>> THEN r
    ELSE LET op == Head(ops)
         IN  IF op.kind = "replace_account" /\ Position(r.mem.accounts, op.id) = 0
               THEN ApplyOpsKeepGoing(r, Tail(ops), i + 1, failAt, t)
             ELSE LET m == Saved(StorageOp(r.mem, op, t), t)
                  IN  ApplyOpsKeepGoing(
                          [mem |-> m, disk |-> IF i = failAt THEN r.disk ELSE m, err |-> ""],
                          Tail(ops), i + 1, failAt, t)

RECURSIVE ApplyOps(_, _, _, _, _)
ApplyOps(r, ops, i, failAt, t) ==
    IF ops = <<>> THEN r
    ELSE LET op == Head(ops)
         IN  IF op.kind = "replace_account" /\ Position(r.mem.accounts, op.id) = 0
               THEN [r EXCEPT !.err = "Account not found"]
             ELSE LET m == Saved(StorageOp(r.mem, op, t), t)
                  IN  IF i = failAt
                        THEN [mem |-> m, disk |-> r.disk, err |-> "Failed to save accounts"]
                        ELSE ApplyOps([mem |-> m, disk |-> m, err |-> ""],
                                      Tail(ops), i + 1, failAt, t)

\* lines 1041-1053: the pending merge is taken out of the slot.
ConfirmTake ==
    /\ cf.pc = "idle"
    /\ slot # None
    /\ LET active == unwrap_or(slot, ActiveSync(0, "", None))
       IN  /\ active.pending # None
           /\ slot' = Some([active EXCEPT !.pending = None])
           /\ cf' = [IdleConfirm EXCEPT
                       !.pc = "apply",
                       !.remote_device_id =
                           unwrap_or(active.pending, PendingMerge("", EmptyMerge)).remote_device_id,
                       !.merge_result =
                           Some(unwrap_or(active.pending, PendingMerge("", EmptyMerge)).merge_result)]
    /\ UNCHANGED <<auxVars, fileVars, hsVars, mergeIn, mergeOut, accounts, tombstones, disk, now, history, sessions, bg,
                   join, minted, peerKnows>>

\* lines 1069-1114: the storage calls, made while the vault is locked.
ConfirmApply(inputs) ==
    /\ cf.pc = "apply"
    /\ \E decisions \in inputs :
         LET ops == ConfirmOps(unwrap_or(cf.merge_result, EmptyMerge), decision_map(decisions))
         IN  \E failAt \in 0..Len(ops) :
               LET r == ApplyOps([mem |-> Storage, disk |-> disk, err |-> ""],
                                 ops, 1, failAt, now)
               IN  /\ accounts' = r.mem.accounts
                   /\ tombstones' = r.mem.tombstones
                   /\ disk' = r.disk
                   /\ cf' = [cf EXCEPT !.pc = IF r.err = "" THEN "history" ELSE "return",
                                       !.decisions = decision_map(decisions),
                                       !.err = r.err]
    /\ UNCHANGED <<auxVars, fileVars, hsVars, mergeIn, mergeOut, now, history, slot, sessions, bg, join, minted, peerKnows>>

\* lines 1117-1121: the watermark of the peer is recorded; a failure to
\* write the history file is logged and nothing else.
ConfirmHistory ==
    /\ cf.pc = "history"
    /\ \/ history' = [history EXCEPT ![cf.remote_device_id] = Some(now)]
       \/ UNCHANGED history
    /\ cf' = [cf EXCEPT !.pc = "clear", !.merge_result = None, !.decisions = <<>>]
    /\ UNCHANGED <<auxVars, fileVars, hsVars, mergeIn, mergeOut, accounts, tombstones, disk, now, slot, sessions, bg,
                   join, minted, peerKnows>>

\* lines 1124-1126: the slot is emptied.
ConfirmClear ==
    /\ cf.pc = "clear"
    /\ slot' = None
    /\ cf' = [cf EXCEPT !.pc = "return"]
    /\ UNCHANGED <<auxVars, fileVars, hsVars, mergeIn, mergeOut, accounts, tombstones, disk, now, history, sessions, bg,
                   join, minted, peerKnows>>

\* sync_confirm returns Ok(..) or the Err(..) kept in cf.err.
ConfirmReturn ==
    /\ cf.pc = "return"
    /\ cf' = IdleConfirm
    /\ UNCHANGED <<auxVars, fileVars, hsVars, mergeIn, mergeOut, accounts, tombstones, disk, now, history, slot, sessions,
                   bg, join, minted, peerKnows>>

(***************************************************************************)
(* The vault file (storage.rs).  A file is absent or holds bytes; of the   *)
(* bytes the model keeps what load_payload can tell apart: fewer than 12   *)
(* bytes ("short"), bytes no key decrypts ("garbled"), a write that broke  *)
(* off ("partial"), and nonce || AES-256-GCM(key, plaintext) ("enc"),      *)
(* which decrypts under that key and no other.  The plaintext is the       *)
(* serialised StoragePayload, a legacy array of accounts, or JSON that is  *)
(* neither.                                                                *)
(***************************************************************************)
NoPayload == [format |-> "", accounts |-> <<>>, tombstones |-> <<>>]

File(kind, key, body) == [kind |-> kind, key |-> key, body |-> body]

Absent == File("absent", "", NoPayload)

Short == File("short", "", NoPayload)

Garbled == File("garbled", "", NoPayload)

Partial == File("partial", "", NoPayload)

\* A serialisation that writes the accounts last to first.
StoragePayloadReversed(st) ==
    [format |-> "v2",
     accounts |-> [i \in 1..Len(st.accounts) |-> st.accounts[Len(st.accounts) + 1 - i]],
     tombstones |-> st.tombstones]

\* serde_json::to_vec(&StoragePayload { version: 2, .. })
StoragePayload(st) ==
    [format |-> "v2", accounts |-> st.accounts, tombstones |-> st.tombstones]

LegacyPayload(accs) == [format |-> "legacy", accounts |-> accs, tombstones |-> <<>>]

BadPayload == [format |-> "other", accounts |-> <<>>, tombstones |-> <<>>]

Encrypted(key, body) == File("enc", key, body)

\* cipher.decrypt(nonce, ciphertext)
Decrypt(file, key) ==
    IF file.kind = "enc" /\ file.key = key THEN Some(file.body) ELSE None

Loaded(accs, tombs, unreadable) ==
    [err |-> "", accounts |-> accs, tombstones |-> tombs, unreadable |-> unreadable]

\* Storage::load_payload at time t; unreadable tells that the decryption
\* failed and the file is to be renamed to accounts.enc.bak.  The accounts
\* of a legacy file carry no last_modified and get the time of the load
\* (serde default = "now_secs").
load_payload(file, key, t) ==
    IF file.kind = "absent" THEN Loaded(<<>>, <<>>, FALSE)
    ELSE IF file.kind = "short" THEN Loaded(<<>>, <<>>, FALSE)
    ELSE IF Decrypt(file, key) = None THEN Loaded(<<>>, <<>>, TRUE)
    ELSE LET body == unwrap_or(Decrypt(file, key), NoPayload)
         IN  IF body.format = "v2" THEN Loaded(body.accounts, body.tombstones, FALSE)
             ELSE IF body.format = "legacy"
               THEN Loaded([i \in 1..Len(body.accounts) |->
                               [body.accounts[i] EXCEPT !.last_modified = t]],
                           <<>>, FALSE)
             ELSE [Loaded(<<>>, <<>>, FALSE) EXCEPT !.err = "Failed to load accounts"]

\* A save that writes the live file in place.
SaveFilesInPlace(fs, data, fault) ==
    CASE fault = "none"  -> [fs EXCEPT !.live = data]
      [] fault \in {"write", "rename"}
                         -> [fs EXCEPT !.live = Partial]
      [] OTHER           -> fs

\* Storage::save, lines 250-268: the bytes go to accounts.enc.tmp, which is
\* renamed over accounts.enc.  `fault` names the step that fails: the
\* serialisation, the encryption, the write of the temporary file (a part
\* of it written) or the rename (the temporary file removed).
SaveFiles(fs, data, fault) ==
    CASE fault = "none"   -> [fs EXCEPT !.live = data, !.tmp = Absent]
      [] fault = "write"  -> [fs EXCEPT !.tmp = Partial]
      [] fault = "rename" -> [fs EXCEPT !.tmp = Absent]
      [] OTHER            -> fs

SaveFaults == {"none", "serialize", "encrypt", "write", "rename"}

ClosedStore == [open |-> FALSE, key |-> "", err |-> "", op |-> "none"]

FileIdle ==
    /\ files = [live |-> Absent, tmp |-> Absent, bak |-> Absent]
    /\ store = ClosedStore
    /\ deletedAt = <<>>

\* No PinManager, no key loading and no call of a pure function in play.
AuxIdle ==
    /\ pin = <<>>
    /\ keys = <<>>
    /\ conns = <<>>
    /\ device = <<>>
    /\ callIn = None
    /\ callOut = None

\* The vault, the history and the slot of a fresh install.
VaultInit ==
    /\ accounts = <<>>
    /\ tombstones = <<>>
    /\ disk = [accounts |-> <<>>, tombstones |-> <<>>]
    /\ now = 0
    /\ history = [p \in PeerIds |-> None]
    /\ slot = None
    /\ sessions = 0
    /\ bg = <<>>
    /\ join = IdleJoin
    /\ cf = IdleConfirm
    /\ minted = {}
    /\ peerKnows = {}

(***************************************************************************)
(* The pairing transport (sync_transport.rs, sync_ws.rs).  Time is counted *)
(* in units of 30 seconds, the I/O deadline of a read.  A value on the     *)
(* wire is a triple <<tag, key, data>>: a nonce carries its number, an     *)
(* HMAC the key and the value it was computed over, so that two HMACs are  *)
(* equal exactly when key and message are.                                 *)
(***************************************************************************)
ACCEPT_TIMEOUT == 4

\* sync.rs:23: the sync code is documented as valid for 60 s (two units).
CODE_EXPIRY_SECS == 2

IO_TIMEOUT == 1

MaxClock == 5

MaxPeers == 2

PeerSet == 1..MaxPeers

InitiatorKey == "K"

PeerKinds == {"good", "wrong", "garbage", "short", "close"}

KeyOf(kind) == IF kind = "good" THEN InitiatorKey ELSE "K2"

Nonce(n) == <<"nonce", "", <<n>>>>

Junk == <<"junk", "", <<>>>>

\* A WebSocket message that is no binary message (Message::Ping, a text
\* message, a pong).
Ping == <<"ping", "", <<>>>>

compute_hmac(key, data) == <<"hmac", key, data>>

AlwaysEqual(a, b) == TRUE

constant_time_eq(a, b) == a = b

derive_session_key(key, nonce) == <<"session", key, nonce>>

Payload(from, session_key) == <<"payload", from, session_key>>

IdleListener ==
    [pc |-> "idle", deadline |-> 0, peer |-> 0, is_ws |-> FALSE, nonce |-> Junk,
     nonces |-> 0, since |-> 0, joiner_hmac |-> Junk, session_key |-> Junk,
     result |-> "", received |-> FALSE, sent |-> FALSE, cancelled |-> FALSE]

NewPeer(kind, ws) ==
    [kind |-> kind, key |-> KeyOf(kind), ws |-> ws, pc |-> "start", since |-> 0,
     connected_at |-> 0, our_hmac |-> Junk, ack |-> Junk, session_key |-> Junk,
     toInit |-> <<>>, toPeer |-> <<>>, shutI |-> FALSE, shutP |-> FALSE,
     result |-> "", received |-> FALSE, sent |-> FALSE]

HsIdle ==
    /\ clock = 0
    /\ lst = IdleListener
    /\ peers = <<>>
    /\ backlog = <<>>

\* read_exact_bytes on a stream with a read timeout: the bytes when they
\* are there, an error when the other side has closed or the timeout ran out.
ReadFails(inbox, closed, since) ==
    inbox = <<>> /\ (closed \/ clock >= since + IO_TIMEOUT)

\* The stream of a failed handshake is dropped, and accept_any gives up
\* only when the accept deadline has passed.
HandshakeFailed(e) ==
    /\ peers' = [peers EXCEPT ![lst.peer].shutI = TRUE,
                              ![lst.peer].toInit = <<>>]
    /\ lst' = IF clock >= lst.deadline
              THEN [lst EXCEPT !.pc = "returned", !.result = e]
              ELSE [lst EXCEPT !.pc = "accept"]

\* accept_any: the poll of the non-blocking listener.
LstAccept ==
    /\ lst.pc = "accept"
    /\ backlog # <<>>
    /\ LET p == Head(backlog)
           n == Nonce(lst.nonces + 1)
       IN  /\ backlog' = Tail(backlog)
           /\ lst' = [lst EXCEPT !.pc = "read_hmac", !.peer = p,
                                 !.is_ws = peers[p].ws, !.nonce = n,
                                 !.nonces = lst.nonces + 1, !.since = clock]
           /\ peers' = [peers EXCEPT ![p].toPeer =
                            IF peers[p].shutP THEN <<>> ELSE <<n>>]
    /\ UNCHANGED <<auxVars, fileVars, restVars, clock>>

LstAcceptTimeout ==
    /\ lst.pc = "accept"
    /\ backlog = <<>>
    /\ clock >= lst.deadline
    /\ lst' = [lst EXCEPT !.pc = "returned",
                          !.result = "Sync timed out - no device connected"]
    /\ UNCHANGED <<auxVars, fileVars, restVars, clock, peers, backlog>>

\* handshake_initiator after the nonce went out.  On a WebSocket the read
\* is recv_binary, a loop around ws.read(): a message that is not binary is
\* answered or skipped and the next read starts, with the read timeout of
\* the stream running anew.
LstReadHmac ==
    /\ lst.pc = "read_hmac"
    /\ LET p == lst.peer
           inbox == peers[p].toInit
       IN  \/ /\ inbox # <<>>
              /\ Head(inbox) = Ping
              /\ lst' = [lst EXCEPT !.since = clock]
              /\ peers' = [peers EXCEPT ![p].toInit = Tail(inbox)]
           \/ /\ inbox # <<>>
              /\ Head(inbox) # Ping
              /\ constant_time_eq(Head(inbox), compute_hmac(InitiatorKey, lst.nonce))
              /\ lst' = [lst EXCEPT !.pc = "recv_payload", !.result = "ok",
                             !.joiner_hmac = Head(inbox), !.since = clock,
                             !.session_key = derive_session_key(InitiatorKey, lst.nonce)]
              /\ peers' = [peers EXCEPT ![p].toInit = Tail(inbox),
                               ![p].toPeer = Append(peers[p].toPeer,
                                   compute_hmac(InitiatorKey, Head(inbox)))]
           \/ /\ inbox # <<>>
              /\ Head(inbox) # Ping
              /\ ~constant_time_eq(Head(inbox), compute_hmac(InitiatorKey, lst.nonce))
              /\ HandshakeFailed("Authentication failed - the sync code may be incorrect")
           \/ /\ ReadFails(inbox, peers[p].shutP, lst.since)
              /\ HandshakeFailed(IF lst.is_ws THEN "WebSocket sync read error"
                                              ELSE "Sync connection error")
    /\ UNCHANGED <<auxVars, fileVars, restVars, clock, backlog>>

\* A client that opens with "GET" is upgraded first; one that is no
\* WebSocket client after all fails the upgrade.
LstUpgradeFails ==
    /\ lst.pc = "accept"
    /\ backlog # <<>>
    /\ LET p == Head(backlog)
       IN  /\ peers[p].ws /\ peers[p].kind = "garbage"
           /\ backlog' = Tail(backlog)
           /\ peers' = [peers EXCEPT ![p].shutI = TRUE, ![p].toInit = <<>>]
           /\ lst' = IF clock >= lst.deadline
                     THEN [lst EXCEPT !.pc = "returned", !.peer = p,
                                      !.result = "WebSocket handshake failed"]
                     ELSE [lst EXCEPT !.pc = "accept", !.peer = p]
    /\ UNCHANGED <<auxVars, fileVars, restVars, clock>>

\* The accept thread of sync_start after accept_any returned a connection:
\* recv_payload, then send_payload, then close.
LstRecvPayload ==
    /\ lst.pc = "recv_payload"
    /\ LET p == lst.peer
           inbox == peers[p].toInit
       IN  \/ /\ inbox # <<>>
              /\ Head(inbox) = Payload("joiner", lst.session_key)
              /\ lst' = [lst EXCEPT !.pc = "send_payload", !.received = TRUE]
              /\ peers' = [peers EXCEPT ![p].toInit = Tail(inbox)]
           \/ /\ inbox # <<>>
              /\ Head(inbox) # Payload("joiner", lst.session_key)
              /\ lst' = [lst EXCEPT !.pc = "failed", !.result = "Session decryption failed"]
              /\ peers' = [peers EXCEPT ![p].shutI = TRUE, ![p].toInit = <<>>]
           \/ /\ ReadFails(inbox, peers[p].shutP, lst.since)
              /\ lst' = [lst EXCEPT !.pc = "failed", !.result = "Sync connection error"]
              /\ peers' = [peers EXCEPT ![p].shutI = TRUE]
    /\ UNCHANGED <<auxVars, fileVars, restVars, clock, backlog>>

LstSendPayload ==
    /\ lst.pc = "send_payload"
    /\ lst' = [lst EXCEPT !.pc = "finished", !.sent = TRUE]
    /\ peers' = [peers EXCEPT ![lst.peer].toPeer =
                    Append(peers[lst.peer].toPeer, Payload("initiator", lst.session_key)),
                              ![lst.peer].shutI = TRUE]
    /\ UNCHANGED <<auxVars, fileVars, restVars, clock, backlog>>

\* A device dials the listener; the devices are numbered in the order in
\* which they dial.  The connection waits in the backlog of
\* the listening socket, which lives as long as the accept thread does.
\* A client that follows the protocol enters handshake_joiner.  Of the
\* others, "garbage" sends HMAC_SIZE bytes that are no HMAC, "short" sends
\* fewer than HMAC_SIZE bytes (none at all included) and keeps the
\* connection open, "close" closes at once, and "ping" is a WebSocket client
\* that keeps the connection open and sends pings.
PeerConnect(p) ==
    /\ peers[p].pc = "start"
    /\ \A q \in PeerSet : q < p => peers[q].pc # "start"
    /\ lst.pc \in {"accept", "read_hmac", "recv_payload", "send_payload"}
    /\ backlog' = Append(backlog, p)
    /\ peers' = [peers EXCEPT ![p] =
          LET q == [peers[p] EXCEPT !.connected_at = clock, !.since = clock]
          IN  CASE q.kind \in {"good", "wrong"} -> [q EXCEPT !.pc = "read_nonce"]
                [] q.kind = "garbage" -> [q EXCEPT !.pc = "stalled", !.toInit = <<Junk>>]
                [] q.kind = "close"   -> [q EXCEPT !.pc = "closed", !.shutP = TRUE]
                [] OTHER              -> [q EXCEPT !.pc = "stalled"]]
    /\ UNCHANGED <<auxVars, fileVars, restVars, clock, lst>>

\* A WebSocket client that sends no binary message, only pings: one more
\* is on the wire before the listener's read times out.
PeerPing(p) ==
    /\ peers[p].kind = "ping"
    /\ peers[p].pc = "stalled"
    /\ lst.pc = "read_hmac"
    /\ lst.peer = p
    /\ peers[p].toInit = <<>>
    /\ peers' = [peers EXCEPT ![p].toInit = <<Ping>>]
    /\ UNCHANGED <<auxVars, fileVars, restVars, clock, lst, backlog>>

\* sync_cancel while the accept thread runs: the slot is emptied, which the
\* thread does not look at before it has a phase to set.
LstCancel ==
    /\ lst.pc \in {"accept", "read_hmac", "recv_payload", "send_payload"}
    /\ ~lst.cancelled
    /\ lst' = [lst EXCEPT !.cancelled = TRUE]
    /\ UNCHANGED <<auxVars, fileVars, restVars, clock, peers, backlog>>

PeerFails(p, e) ==
    peers' = [peers EXCEPT ![p].pc = "returned", ![p].result = e,
                           ![p].shutP = TRUE, ![p].toPeer = <<>>]

\* handshake_joiner.
PeerReadNonce(p) ==
    /\ peers[p].pc = "read_nonce"
    /\ LET q == peers[p]
       IN  \/ /\ q.toPeer # <<>>
              /\ peers' = [peers EXCEPT ![p] =
                    [q EXCEPT !.pc = "read_ack", !.since = clock,
                              !.toPeer = Tail(q.toPeer),
                              !.our_hmac = compute_hmac(q.key, Head(q.toPeer)),
                              !.session_key = derive_session_key(q.key, Head(q.toPeer)),
                              !.toInit = Append(q.toInit,
                                                compute_hmac(q.key, Head(q.toPeer)))]]
           \/ /\ ReadFails(q.toPeer, q.shutI, q.since)
              /\ PeerFails(p, "Sync connection error")
    /\ UNCHANGED <<auxVars, fileVars, restVars, clock, lst, backlog>>

PeerReadAck(p) ==
    /\ peers[p].pc = "read_ack"
    /\ LET q == peers[p]
       IN  \/ /\ q.toPeer # <<>>
              /\ constant_time_eq(Head(q.toPeer), compute_hmac(q.key, q.our_hmac))
              /\ peers' = [peers EXCEPT ![p] =
                    [q EXCEPT !.pc = "send_payload", !.result = "ok",
                              !.ack = Head(q.toPeer), !.toPeer = Tail(q.toPeer)]]
           \/ /\ q.toPeer # <<>>
              /\ ~constant_time_eq(Head(q.toPeer), compute_hmac(q.key, q.our_hmac))
              /\ PeerFails(p, "Authentication failed - the sync code may be incorrect")
           \/ /\ ReadFails(q.toPeer, q.shutI, q.since)
              /\ PeerFails(p, "Sync connection error")
    /\ UNCHANGED <<auxVars, fileVars, restVars, clock, lst, backlog>>

\* A joiner that goes on to receive without having sent.
PeerSkipSend(p) ==
    /\ peers[p].pc = "send_payload"
    /\ peers' = [peers EXCEPT ![p].pc = "recv_payload", ![p].since = clock]
    /\ UNCHANGED <<auxVars, fileVars, restVars, clock, lst, backlog>>

\* sync_join after connect returned: send_payload, then recv_payload.
PeerSendPayload(p) ==
    /\ peers[p].pc = "send_payload"
    /\ peers' = [peers EXCEPT ![p].pc = "recv_payload", ![p].sent = TRUE,
                    ![p].since = clock,
                    ![p].toInit = IF peers[p].shutI THEN <<>>
                                  ELSE Append(peers[p].toInit,
                                              Payload("joiner", peers[p].session_key))]
    /\ UNCHANGED <<auxVars, fileVars, restVars, clock, lst, backlog>>

PeerRecvPayload(p) ==
    /\ peers[p].pc = "recv_payload"
    /\ LET q == peers[p]
       IN  \/ /\ q.toPeer # <<>>
              /\ Head(q.toPeer) = Payload("initiator", q.session_key)
              /\ peers' = [peers EXCEPT ![p] =
                    [q EXCEPT !.pc = "finished", !.received = TRUE,
                              !.toPeer = Tail(q.toPeer), !.shutP = TRUE]]
           \/ /\ q.toPeer # <<>>
              /\ Head(q.toPeer) # Payload("initiator", q.session_key)
              /\ PeerFails(p, "Session decryption failed")
           \/ /\ ReadFails(q.toPeer, q.shutI, q.since)
              /\ PeerFails(p, "Sync connection error")
    /\ UNCHANGED <<auxVars, fileVars, restVars, clock, lst, backlog>>

\* accept_any is entered: the listener turns non-blocking and the accept
\* deadline is fixed.
LstListen ==
    /\ lst.pc = "idle"
    /\ lst' = [lst EXCEPT !.pc = "accept", !.deadline = clock + ACCEPT_TIMEOUT]
    /\ UNCHANGED <<auxVars, fileVars, restVars, clock, peers, backlog>>

\* A thread that can take a step takes it before the clock moves on: a
\* step costs no time on the scale of the deadlines, only waiting does.
LstCanStep ==
    \/ lst.pc \in {"idle", "send_payload"}
    \/ lst.pc = "accept" /\ (backlog # <<>> \/ clock >= lst.deadline)
    \/ /\ lst.pc \in {"read_hmac", "recv_payload"}
       /\ \/ peers[lst.peer].toInit # <<>>
          \/ ReadFails(peers[lst.peer].toInit, peers[lst.peer].shutP, lst.since)

PeerCanStep(p) ==
    \/ peers[p].pc = "send_payload"
    \/ /\ peers[p].pc \in {"read_nonce", "read_ack", "recv_payload"}
       /\ \/ peers[p].toPeer # <<>>
          \/ ReadFails(peers[p].toPeer, peers[p].shutI, peers[p].since)

HsTick ==
    /\ clock < MaxClock
    /\ ~LstCanStep
    /\ \A p \in PeerSet : ~PeerCanStep(p)
    /\ clock' = clock + 1
    /\ UNCHANGED <<auxVars, fileVars, restVars, lst, peers, backlog>>

LstStep ==
    \/ LstListen
    \/ LstAccept
    \/ LstUpgradeFails
    \/ LstAcceptTimeout
    \/ LstReadHmac
    \/ LstRecvPayload
    \/ LstSendPayload

PeerStep(p) ==
    \/ PeerReadNonce(p)
    \/ PeerReadAck(p)
    \/ PeerSendPayload(p)
    \/ PeerRecvPayload(p)

(***************************************************************************)
(* SpecHs: one sync_start listener with the key K and the devices that     *)
(* dial it, each of one kind: the user's other device (the same key), a    *)
(* device with another key, and clients that send garbage, send too little *)
(* or close at once.  At most one device holds the key.                    *)
(***************************************************************************)
PeerConfigs ==
    {NewPeer(k, FALSE) : k \in PeerKinds}
        \cup {NewPeer(k, TRUE) : k \in {"good", "wrong", "garbage", "ping"}}

HsInit ==
    /\ VaultInit
    /\ FileIdle
    /\ AuxIdle
    /\ mergeIn = None
    /\ mergeOut = None
    /\ clock = 0
    /\ lst = IdleListener
    /\ backlog = <<>>
    /\ peers \in [PeerSet -> PeerConfigs]
    /\ Cardinality({p \in PeerSet : peers[p].kind = "good"}) <= 1

HsNext ==
    \/ LstListen
    \/ LstAccept
    \/ LstUpgradeFails
    \/ LstAcceptTimeout
    \/ LstReadHmac
    \/ LstRecvPayload
    \/ LstSendPayload
    \/ \E p \in PeerSet : PeerConnect(p)
    \/ \E p \in PeerSet : PeerReadNonce(p)
    \/ \E p \in PeerSet : PeerReadAck(p)
    \/ \E p \in PeerSet : PeerSendPayload(p)
    \/ \E p \in PeerSet : PeerRecvPayload(p)
    \/ \E p \in PeerSet : PeerPing(p)
    \/ LstCancel
    \/ HsTick

SpecHs == HsInit /\ [][HsNext]_vars

\* Every thread that can run does run, and time passes.
HsFairness ==
    /\ WF_vars(LstStep)
    /\ \A p \in PeerSet : WF_vars(PeerStep(p))
    /\ WF_vars(HsTick)

SpecHsFair == SpecHs /\ HsFairness

(***************************************************************************)
(* SpecStore and SpecRetention: one vault directory.  The application      *)
(* opens the vault with the key the keychain hands it, calls the Storage   *)
(* methods, syncs with a peer (merge, then sync_confirm, one after the     *)
(* other) and exits; days pass in between.  store.op tells whether the     *)
(* last step was a call that saves, store.err is the result of that call.  *)
(***************************************************************************)
MaxTicks == 1

VaultIds == {"a", "b"}

\* The ids in play where the vault is synced and days pass.
SyncIds == {"a"}

VaultKeys == {"k1"}

\* The clock moves by the retention period or by a day more: to the last
\* day a tombstone made just before is retained, or to the day after it.
DaySteps == {TOMBSTONE_RETENTION_DAYS, TOMBSTONE_RETENTION_DAYS + 1}

\* The number of steps the clock has made.
Elapsed(t) == (t + TOMBSTONE_RETENTION_DAYS) \div (TOMBSTONE_RETENTION_DAYS + 1)

vaultRest == <<mergeIn, mergeOut, disk, slot, sessions, bg, join, cf, peerKnows,
               clock, lst, peers, backlog, auxVars>>

\* A mutating Storage method followed by save: the tombstones are pruned
\* in memory, then the file is written unless a step of save fails.
VaultCommit(st, fault) ==
    LET m == Saved(st, now)
    IN  /\ accounts' = m.accounts
        /\ tombstones' = m.tombstones
        /\ files' = SaveFiles(files, Encrypted(store.key, StoragePayload(m)), fault)
        /\ store' = [store EXCEPT !.op = "save",
                        !.err = IF fault = "none" THEN "" ELSE "Failed to save accounts"]

\* Storage::new: the key, then load_payload.  A file that does not decrypt
\* is renamed to accounts.enc.bak; a failure of that rename is logged and
\* nothing else.
VOpen ==
    /\ ~store.open
    /\ \E k \in VaultKeys, io \in {"ok", "read_fails", "rename_fails"} :
         LET l == load_payload(files.live, k, now)
         IN  IF (io = "read_fails" /\ files.live.kind # "absent") \/ l.err # ""
               THEN /\ store' = [ClosedStore EXCEPT !.op = "none",
                                                    !.err = "Failed to load accounts"]
                    /\ UNCHANGED <<accounts, tombstones, files, minted>>
               ELSE /\ accounts' = l.accounts
                    /\ tombstones' = l.tombstones
                    /\ minted' = minted \cup Ids(l.accounts)
                    /\ files' = IF l.unreadable /\ io # "rename_fails"
                                THEN [files EXCEPT !.bak = files.live, !.live = Absent]
                                ELSE files
                    /\ store' = [open |-> TRUE, key |-> k, err |-> "", op |-> "none"]
    /\ UNCHANGED <<vaultRest, now, history, deletedAt>>

\* The application exits: the Storage value is dropped.
VClose ==
    /\ store.open
    /\ store' = ClosedStore
    /\ accounts' = <<>>
    /\ tombstones' = <<>>
    /\ UNCHANGED <<vaultRest, now, history, minted, files, deletedAt>>

VAddOf(ids) ==
    /\ store.open
    /\ \E id \in ids \ minted, fault \in SaveFaults :
         /\ VaultCommit(StorageAdd(Storage, Account(id, "L", 0), now), fault)
         /\ minted' = minted \cup {id}
    /\ UNCHANGED <<vaultRest, now, history, deletedAt>>

VAdd == VAddOf(VaultIds)

VAddOne == VAddOf(SyncIds)

VDelete ==
    /\ store.open
    /\ Len(tombstones) < MaxTombstones
    /\ \E id \in Ids(accounts), fault \in SaveFaults :
         /\ VaultCommit(StorageDelete(Storage, id, now), fault)
         /\ deletedAt' = [deletedAt EXCEPT ![id] = Some(now)]
    /\ UNCHANGED <<vaultRest, now, history, minted>>

VUpdate ==
    /\ store.open
    /\ \E id \in VaultIds, fault \in SaveFaults :
         IF Position(accounts, id) = 0
           THEN /\ store' = [store EXCEPT !.op = "none", !.err = "Account not found"]
                /\ UNCHANGED <<accounts, tombstones, files>>
           ELSE VaultCommit(StorageUpdate(Storage, id, "E", now), fault)
    /\ UNCHANGED <<vaultRest, now, history, minted, deletedAt>>

VReorder ==
    /\ store.open
    /\ \E ids \in {<<>>} \cup {<<i>> : i \in VaultIds}, fault \in SaveFaults :
         VaultCommit(StorageReorder(Storage, ids), fault)
    /\ UNCHANGED <<vaultRest, now, history, minted, deletedAt>>

VTick ==
    /\ \E d \in DaySteps :
         /\ Elapsed(now + d) <= MaxTicks
         /\ now' = now + d
    /\ store' = [store EXCEPT !.op = "none"]
    /\ UNCHANGED <<vaultRest, accounts, tombstones, history, minted, files, deletedAt>>

\* What the peer sends: nothing, one account or one tombstone, stamped at
\* the epoch or now.
VRemotePayloads ==
    {[accounts |-> <<>>, tombstones |-> <<>>]}
    \cup {[accounts |-> <<Account(i, "R", t)>>, tombstones |-> <<>>] :
             i \in SyncIds, t \in {0, now}}
    \cup {[accounts |-> <<>>, tombstones |-> <<Tombstone(i, t)>>] :
             i \in SyncIds, t \in {0, now}}

\* The decisions the user can send back: none, or one for a conflict shown.
VDecisions(mr) ==
    {<<>>} \cup {<<MergeDecision(mr.conflicts[i].local.id, x)>> :
                   i \in 1..Len(mr.conflicts), x \in DecisionActions}

\* A sync with peer "P" from the exchange to the end of sync_confirm, with
\* nothing in between: merge on the vault as it is (mergeOut keeps its
\* result), then the storage calls of sync_confirm, each with its save,
\* then the watermark.
VSync ==
    /\ store.open
    /\ \E rp \in VRemotePayloads, written \in BOOLEAN :
         \E order \in KeyOrders(rp.tombstones) :
           LET ra == rp.accounts
               mr == merge(accounts, tombstones, ra, rp.tombstones, history["P"], order)
           IN  \E decisions \in VDecisions(mr) :
               LET ops == ConfirmOps(mr, decision_map(decisions))
               IN
               \E failAt \in 0..Len(ops) :
                 LET r == ApplyOps([mem |-> Storage, disk |-> Storage, err |-> ""],
                                   ops, 1, failAt, now)
                     deleted == {ops[j].id : j \in {i \in 1..Len(ops) :
                                     ops[i].kind = "delete" /\ (failAt = 0 \/ i <= failAt)}}
                 IN  /\ accounts' = r.mem.accounts
                     /\ tombstones' = r.mem.tombstones
                     /\ files' = [files EXCEPT
                            !.live = IF ops # <<>> /\ failAt # 1
                                     THEN Encrypted(store.key, StoragePayload(r.disk))
                                     ELSE @,
                            !.tmp = IF r.err # "" THEN Partial
                                    ELSE IF ops = <<>> THEN @ ELSE Absent]
                     /\ store' = [store EXCEPT !.err = r.err,
                                     !.op = IF ops = <<>> THEN "none" ELSE "save"]
                     /\ history' = IF r.err = "" /\ written
                                   THEN [history EXCEPT !["P"] = Some(now)]
                                   ELSE history
                     /\ deletedAt' = [i \in VaultIds |->
                                        IF i \in deleted THEN Some(now) ELSE deletedAt[i]]
                     /\ minted' = minted \cup Ids(ra) \cup Ids(rp.tombstones)
                     /\ mergeOut' = Some(mr)
    /\ UNCHANGED <<mergeIn, disk, slot, sessions, bg, join, cf, peerKnows, hsVars, now,
                   auxVars>>

\* The file the first open finds: none, or what an earlier installation
\* or something else left at accounts.enc.
InitialFiles ==
    {Absent, Short, Garbled,
     Encrypted("k1", LegacyPayload(<<Account("a", "L", 0)>>)),
     Encrypted("k1", BadPayload)}

VaultSpecInit ==
    /\ accounts = <<>>
    /\ tombstones = <<>>
    /\ disk = [accounts |-> <<>>, tombstones |-> <<>>]
    /\ now = 0
    /\ history = [p \in PeerIds |-> None]
    /\ slot = None
    /\ sessions = 0
    /\ bg = <<>>
    /\ join = IdleJoin
    /\ cf = IdleConfirm
    /\ peerKnows = {}
    /\ mergeIn = None
    /\ mergeOut = None
    /\ HsIdle
    /\ store = ClosedStore
    /\ deletedAt = [i \in VaultIds |-> None]
    /\ AuxIdle

\* The vault file under the Storage methods, at one moment in time.
StoreNext ==
    \/ VOpen
    \/ VClose
    \/ VAdd
    \/ VDelete
    \/ VUpdate
    \/ VReorder

StoreInit ==
    /\ VaultSpecInit
    /\ \E f \in InitialFiles :
         /\ files = [live |-> f, tmp |-> Absent, bak |-> Absent]
         /\ minted = Ids(f.body.accounts)

SpecStore == StoreInit /\ [][StoreNext]_vars

\* One account over the days: added, deleted, synced with the peer.
RetentionNext ==
    \/ VOpen
    \/ VAddOne
    \/ VDelete
    \/ VReorder
    \/ VSync
    \/ VTick

\* A fresh install: no vault file yet.
RetentionInit ==
    /\ VaultSpecInit
    /\ files = [live |-> Absent, tmp |-> Absent, bak |-> Absent]
    /\ minted = {}

SpecRetention == RetentionInit /\ [][RetentionNext]_vars

(***************************************************************************)
(* Spec: a fresh install (empty vault, no history, no session) and every   *)
(* command of the vault and of sync, interleaved.  The user deletes the    *)
(* accounts the vault lists.                                               *)
(***************************************************************************)
Init ==
    /\ VaultInit
    /\ HsIdle
    /\ FileIdle
    /\ AuxIdle
    /\ mergeIn = None
    /\ mergeOut = None

Next ==
    \/ AddAccount
    \/ DeleteAccount(Ids(accounts))
    \/ EditAccount
    \/ ReorderAccounts
    \/ Tick
    \/ PeerAdd
    \/ SyncStart
    \/ \E sid \in 1..MaxSessions : BgAccept(sid)
    \/ \E sid \in 1..MaxSessions : BgExchange(sid)
    \/ JoinCheck
    \/ JoinExchange
    \/ JoinInstall
    \/ SyncCancel
    \/ ConfirmTake
    \/ ConfirmApply(DecisionLists(AllIds))
    \/ ConfirmHistory
    \/ ConfirmClear
    \/ ConfirmReturn

Spec == Init /\ [][Next]_vars

(***************************************************************************)
(* SpecConfirm: sync_confirm alone, started in every state within the      *)
(* bounds that a sync_join leaves behind: a vault, the watermark of the    *)
(* peer, and in the slot the merge of that vault with what the peer sent.  *)
(* Account "a" carries any timestamp on either side, account "b" was       *)
(* added at time 0; the user may have deleted "a" since the merge.         *)
(***************************************************************************)
ConfirmMaxTime == 3

ConfirmTimes == 0..ConfirmMaxTime

ConfirmIds == {"a", "b"}

OptionalAccounts(id, issuer, times) ==
    {<<>>} \cup {<<Account(id, issuer, t)>> : t \in times}

ConfirmInit ==
    \E la \in OptionalAccounts("a", "L", ConfirmTimes),
       lb \in OptionalAccounts("b", "L", {0}),
       ra \in OptionalAccounts("a", "R", ConfirmTimes),
       rb \in OptionalAccounts("b", "R", {0}),
       rt \in {<<>>} \cup {<<Tombstone(i, t)>> : i \in ConfirmIds, t \in ConfirmTimes},
       w \in {None} \cup {Some(t) : t \in ConfirmTimes},
       deleted \in BOOLEAN :
         LET live == IF deleted /\ la # <<>>
                       THEN StorageDelete([accounts |-> la \o lb, tombstones |-> <<>>],
                                          "a", ConfirmMaxTime)
                       ELSE [accounts |-> la \o lb, tombstones |-> <<>>]
         IN  /\ accounts = live.accounts
             /\ tombstones = live.tombstones
             /\ disk = live
             /\ now = ConfirmMaxTime
             /\ history = [p \in PeerIds |-> w]
             /\ slot = Some(ActiveSync(1, "MergeReady",
                           Some(PendingMerge("P", merge(la \o lb, <<>>, ra \o rb, rt, w,
                                                        <<>> \o [i \in 1..Len(rt) |-> rt[i].id])))))
             /\ sessions = 1
             /\ bg = <<>>
             /\ join = IdleJoin
             /\ cf = IdleConfirm
             /\ minted = Ids(la \o lb \o ra \o rb)
             /\ peerKnows = Ids(la \o lb \o ra \o rb)
             /\ mergeIn = None
             /\ mergeOut = None
             /\ HsIdle
             /\ FileIdle
             /\ AuxIdle

ConfirmNext ==
    \/ ConfirmTake
    \/ ConfirmApply(DecisionLists(ConfirmIds))
    \/ ConfirmHistory
    \/ ConfirmClear
    \/ ConfirmReturn

SpecConfirm == ConfirmInit /\ [][ConfirmNext]_vars

(***************************************************************************)
(* SpecMerge: merge applied to every input within the bounds.              *)
(***************************************************************************)
MergeMaxTime == 3

MergeIdSet == {"a", "b"}

MergeTimes == 0..MergeMaxTime

\* Account lists of a vault: ids unique; listed in id order, which merge
\* does not read (it indexes the local list by id).
MergeAccountLists(issuer) ==
    {<<>>}
    \cup {<<Account(i, issuer, t)>> : i \in MergeIdSet, t \in MergeTimes}
    \cup {<<Account("a", issuer, t1), Account("b", issuer, t2)>> :
            t1 \in MergeTimes, t2 \in MergeTimes}

MergeTombstoneLists ==
    {<<>>} \cup {<<Tombstone(i, t)>> : i \in MergeIdSet, t \in MergeTimes}

\* What the peer sends as tombstones is not checked before merge: the list
\* may name an id twice (deleted, brought back by a sync, deleted again),
\* in either order of time.
MergeRemoteTombstoneLists ==
    MergeTombstoneLists
    \cup {<<Tombstone("a", 0), Tombstone("a", MergeMaxTime)>>,
          <<Tombstone("a", MergeMaxTime), Tombstone("a", 0)>>}

MergeWatermarks == {None} \cup {Some(t) : t \in MergeTimes}

MergeInit ==
    /\ mergeIn \in [local_accounts    : MergeAccountLists("L"),
                    local_tombstones  : MergeTombstoneLists,
                    remote_accounts   : MergeAccountLists("R"),
                    remote_tombstones : MergeRemoteTombstoneLists,
                    last_sync         : MergeWatermarks]
    /\ mergeOut = None
    /\ VaultInit
    /\ HsIdle
    /\ FileIdle
    /\ AuxIdle

CallMerge ==
    /\ mergeOut = None
    /\ \E order \in KeyOrders(mergeIn.remote_tombstones) :
         mergeOut' = Some(merge(mergeIn.local_accounts, mergeIn.local_tombstones,
                                mergeIn.remote_accounts, mergeIn.remote_tombstones,
                                mergeIn.last_sync, order))
    /\ UNCHANGED mergeIn
    /\ UNCHANGED vaultVars
    /\ UNCHANGED hsVars
    /\ UNCHANGED fileVars
    /\ UNCHANGED auxVars

MergeNext == CallMerge

SpecMerge == MergeInit /\ [][MergeNext]_vars

(***************************************************************************)
(*                        Claims about sync::merge                         *)
(***************************************************************************)
MergeDone == mergeOut # None

MergeRes == unwrap_or(mergeOut, EmptyMerge)

\* The rule of the merge algorithm that a remote account r falls under,
\* stated over the lists themselves: the first rule that matches.
RuleOf(r) ==
    LET tombs  == {t \in Range(mergeIn.local_tombstones) :
                      t.id = r.id /\ t.deleted_at >= r.last_modified}
        locals == {l \in Range(mergeIn.local_accounts) : l.id = r.id}
        w      == mergeIn.last_sync
    IN  IF tombs # {} THEN 1
        ELSE IF locals = {} THEN 2
        ELSE IF \E l \in locals : l.last_modified = r.last_modified THEN 3
        ELSE IF \E x \in w : x > 0 /\ r.last_modified > x
                              /\ \E l \in locals : l.last_modified > x THEN 4
        ELSE IF \E l \in locals : r.last_modified > l.last_modified THEN 5
        ELSE 6

RemotesOfRule(n) == {r \in Range(mergeIn.remote_accounts) : RuleOf(r) = n}

C3_MergeListsDisjoint ==
    MergeDone =>
        LET add == Ids(MergeRes.to_add)
            upd == Ids(MergeRes.auto_updated)
            con == {c.local.id : c \in Range(MergeRes.conflicts)}
            del == Ids(MergeRes.remote_deletions)
        IN  /\ add \cap upd = {} /\ add \cap con = {} /\ add \cap del = {}
            /\ upd \cap con = {} /\ upd \cap del = {} /\ con \cap del = {}

(***************************************************************************)
(*                 Claims about the vault and sync_confirm                 *)
(***************************************************************************)
\* C1: after any sequence of vault operations and sync_confirm applications
\* no id is at once the id of a stored account and of a stored tombstone.
C1_NoAccountAndTombstone == Ids(accounts) \cap Ids(tombstones) = {}

\* C4: a step of sync_start or of sync_join taken while the slot holds a
\* session leaves that session as it is, however the calls interleave.
C4_SecondSessionRefused ==
    [][(slot # None /\ (sessions' # sessions \/ join' # join)) => slot' = slot]_vars

\* The step of sync_confirm that makes the storage calls, the merge result
\* it works from and the decision map it was given.
ApplyStep == cf.pc = "apply" /\ cf'.pc # "apply"

ConfirmMerge == unwrap_or(cf.merge_result, EmptyMerge)

ConflictIds(mr) == {c.local.id : c \in Range(mr.conflicts)}

AccountsOf(accs, id) == SelectSeq(accs, LAMBDA a : a.id = id)

\* C8: in sync_confirm the watermark of the peer is written only after
\* every storage call has succeeded and the vault on disk holds what they
\* did; writing the history, or failing to, leads on to the clearing of the
\* slot and to the return of success, never to an error.
C8_PersistBeforeWatermark ==
    [][/\ history' # history =>
            /\ cf.pc = "history" /\ cf.err = ""
            /\ disk = Storage
            /\ history' = [history EXCEPT ![cf.remote_device_id] = Some(now)]
       /\ ApplyStep => (cf'.pc = "history" <=> cf'.err = "")
       /\ (ApplyStep /\ cf'.pc = "history" /\ accounts' # accounts) => disk' = Storage'
       /\ cf.pc = "history" => (cf'.pc = "clear" /\ cf'.err = "")
       /\ cf.pc = "clear" => (slot' = None /\ cf'.pc = "return" /\ cf'.err = "")
      ]_vars

\* sync_confirm returned success and emptied the slot after bringing a
\* remote account into the vault and onto the disk, though the history
\* file was not written.
C8_Witness ==
    /\ cf.pc = "return" /\ cf.err = ""
    /\ slot = None
    /\ history["P"] = None
    /\ disk = Storage
    /\ \E a \in Range(accounts) : a.issuer = "R"

\* C9: unless a save fails, sync_confirm puts every to_add account and
\* every auto_updated account in the vault (save for one its decision then
\* deletes), whatever the decisions.
C9_AlwaysApplied ==
    [][(ApplyStep /\ cf'.err # "Failed to save accounts") =>
          \A acc \in Range(ConfirmMerge.to_add) \cup Range(ConfirmMerge.auto_updated) :
              \/ acc \in Range(accounts')
              \/ /\ acc.id \in Ids(ConfirmMerge.remote_deletions)
                 /\ MapGet(cf'.decisions, acc.id) = Some("delete")
      ]_vars

\* C10: sync_confirm leaves the local account of a conflict as it is when
\* the decision for it is missing or is neither keep_remote nor delete;
\* it deletes an account of remote_deletions only on the decision delete;
\* an account in neither list is never deleted, and is changed only as
\* to_add or auto_updated say.
C10_DecisionsFrame ==
    [][ApplyStep =>
          LET mr == ConfirmMerge
              dm == cf'.decisions
          IN  /\ \A id \in ConflictIds(mr) :
                    MapGet(dm, id) \notin {Some("keep_remote"), Some("delete")}
                        => AccountsOf(accounts', id) = AccountsOf(accounts, id)
              /\ \A id \in Ids(mr.remote_deletions) :
                    (id \in Ids(accounts) /\ id \notin Ids(accounts'))
                        => MapGet(dm, id) = Some("delete")
              /\ \A id \in ConfirmIds \ (ConflictIds(mr) \cup Ids(mr.remote_deletions)) :
                    \/ AccountsOf(accounts', id) = AccountsOf(accounts, id)
                    \/ \E u \in Range(mr.auto_updated) :
                          u.id = id /\ AccountsOf(accounts', id) = <<u>>
                    \/ \E u \in Range(mr.to_add) :
                          u.id = id /\ AccountsOf(accounts', id)
                                          = Append(AccountsOf(accounts, id), u)
      ]_vars

\* sync_confirm has run on a merge with a conflict and a remote deletion:
\* the conflict had the decision keep_local and its local account is still
\* there, the remote deletion had the decision delete and its account is gone.
C10_Witness ==
    /\ cf.pc = "history"
    /\ \E c \in Range(ConfirmMerge.conflicts) :
          /\ MapGet(cf.decisions, c.local.id) = Some("keep_local")
          /\ c.local \in Range(accounts)
    /\ \E d \in Range(ConfirmMerge.remote_deletions) :
          /\ MapGet(cf.decisions, d.id) = Some("delete")
          /\ d.id \notin Ids(accounts)


(***************************************************************************)
(*                   Claims about the pairing transport                    *)
(***************************************************************************)
HmacOf(key, data) == <<"hmac", key, data>>

\* C5: a handshake yields a connection only between holders of the same
\* key.  accept_any has returned a connection only if the peer it serves
\* sent the HMAC of this handshake's nonce under the initiator's key;
\* connect has returned one only if the initiator answered with the HMAC of
\* the joiner's own HMAC under the joiner's key; and a device with another
\* key has neither obtained a connection nor is it the peer of a connection
\* accept_any returned.
C5_SameKeyOnly ==
    /\ lst.pc \in {"recv_payload", "send_payload", "finished"} =>
          /\ lst.joiner_hmac = HmacOf(InitiatorKey, lst.nonce)
          /\ lst.nonce = Nonce(lst.nonces)
          /\ peers[lst.peer].key = InitiatorKey
    /\ \A p \in PeerSet :
          peers[p].result = "ok" =>
             /\ peers[p].ack = HmacOf(peers[p].key, peers[p].our_hmac)
             /\ peers[p].key = InitiatorKey
    /\ \A p \in PeerSet :
          peers[p].key # InitiatorKey =>
             /\ peers[p].result # "ok"
             /\ ~(lst.result = "ok" /\ lst.peer = p)

\* A device with another key went through the handshake and was turned
\* away, and the device with the key was connected afterwards.
C5_Witness ==
    /\ lst.result = "ok"
    /\ peers[lst.peer].result = "ok"
    /\ \E p \in PeerSet :
          /\ peers[p].kind = "wrong"
          /\ peers[p].our_hmac # Junk
          /\ peers[p].pc = "returned"

\* C6: a failed handshake does not end the listener.  Once a device that
\* holds the key has connected before the accept deadline, accept_any does
\* not return an error, whichever devices failed the handshake before it.
C6_CorrectJoinerServed ==
    \A p \in PeerSet :
       (peers[p].kind = "good" /\ peers[p].pc # "start"
            /\ peers[p].connected_at < lst.deadline) =>
          lst.pc # "returned"

WaitsToReceive(inbox, closed, since) ==
    inbox = <<>> /\ ~closed /\ clock < since + IO_TIMEOUT

TurnOrder ==
    /\ lst.sent => lst.received
    /\ \A p \in PeerSet : peers[p].received => peers[p].sent

\* The initiator and the joiner it serves both sit in a read, nothing is
\* on the wire in either direction and neither side has closed.
MutualWait ==
    /\ lst.pc \in {"read_hmac", "recv_payload"}
    /\ peers[lst.peer].key = InitiatorKey
    /\ peers[lst.peer].pc \in {"read_nonce", "read_ack", "recv_payload"}
    /\ peers[lst.peer].toInit = <<>> /\ ~peers[lst.peer].shutP
    /\ peers[lst.peer].toPeer = <<>> /\ ~peers[lst.peer].shutI

Served(p) ==
    /\ lst.pc = "read_hmac" /\ lst.peer = p
    /\ peers[p].key = InitiatorKey /\ peers[p].pc = "read_nonce"

BothFinished(p) ==
    /\ lst.pc = "finished" /\ lst.peer = p /\ lst.received /\ lst.sent
    /\ peers[p].pc = "finished" /\ peers[p].sent /\ peers[p].received

\* C7: the joiner sends its payload before it receives and the initiator
\* receives before it sends; the two are never both waiting to receive;
\* and once the listener serves a joiner with the same key, both sides
\* finish the exchange.
C7_TurnOrderNoDeadlock ==
    /\ [](TurnOrder /\ ~MutualWait)
    /\ \A p \in PeerSet : Served(p) ~> BothFinished(p)

C7_Witness ==
    \E p \in PeerSet : BothFinished(p)


(***************************************************************************)
(* Claims about the vault over time (SpecRetention) and the vault file     *)
(* (SpecStore).                                                            *)
(***************************************************************************)

\* C11, as stated: once an account has been deleted here, no step brings
\* its id back with a copy last modified no later than the deletion,
\* whatever saves, syncs and days lie in between.
C11_NeverBroughtBack ==
    [][\A i \in 1..Len(accounts') :
          LET a == accounts'[i]
          IN  (a.id \notin Ids(accounts) /\ deletedAt[a.id] # None) =>
                 a.last_modified > unwrap_or(deletedAt[a.id], 0)]_vars

\* C11, amended: as long as the vault still holds the tombstone of the
\* deletion, no step brings the id back with a copy last modified no later
\* than the tombstone's deleted_at.
C11_NotBroughtBackWhileTombstoneHeld ==
    [][\A i \in 1..Len(accounts') :
          LET a == accounts'[i]
          IN  a.id \notin Ids(accounts) =>
                 \A j \in 1..Len(tombstones) :
                    tombstones[j].id = a.id =>
                       a.last_modified > tombstones[j].deleted_at]_vars

\* On the last day of retention, with the tombstone of day 0 still held and
\* no save since, the peer has offered its copy of day 0 in a sync that
\* completed: merge counted it as unchanged and nothing was added.
C11_Witness ==
    /\ store.open
    /\ store.op = "none"
    /\ now = TOMBSTONE_RETENTION_DAYS
    /\ history["P"] = Some(now)
    /\ tombstones = <<Tombstone("a", 0)>>
    /\ deletedAt["a"] = Some(0)
    /\ accounts = <<>>
    /\ mergeOut = Some([EmptyMerge EXCEPT !.unchanged = 1])

\* The account list a reopen with the same key would show now.
Reopened == load_payload(files.live, store.key, now)

C13_UndecryptableNeverLost ==
    [][(Garbled \in {files.live, files.bak}) =>
          (Garbled \in {files'.live, files'.bak})]_vars

\* C14: opening a file shorter than 12 bytes gives an empty store and
\* leaves the original at accounts.enc.bak.
C14_ShortFilePreserved ==
    [][(files.live = Short /\ ~store.open /\ store'.open) =>
          /\ accounts' = <<>>
          /\ files'.bak = Short]_vars

\* C15: accounts.enc is never a partly written file; a call whose save
\* fails returns the save error and leaves accounts.enc as it was; a call
\* that returns Ok leaves in it the encryption of the whole payload.
C15_FailedSaveKeepsLiveFile ==
    [][/\ files'.live.kind # "partial"
       /\ (store'.op = "save" /\ store'.err # "") =>
             /\ store'.err = "Failed to save accounts"
             /\ files'.live = files.live
       /\ (store'.op = "save" /\ store'.err = "") =>
             files'.live = Encrypted(store'.key,
                              [format |-> "v2", accounts |-> accounts',
                               tombstones |-> tombstones'])]_vars

\* The second add failed in the write of the temporary file: the call
\* returned the error, a part of the new contents is at accounts.enc.tmp
\* and accounts.enc still holds what the first add saved.
C15_Witness ==
    /\ store.open
    /\ store.op = "save"
    /\ store.err = "Failed to save accounts"
    /\ Len(accounts) = 2
    /\ files.tmp = Partial
    /\ files.live = Encrypted(store.key,
                       [format |-> "v2", accounts |-> <<accounts[1]>>,
                        tombstones |-> <<>>])

\* C16: after every successful save, in memory and in the file, no
\* tombstone is older than 90 days, every tombstone held before the save
\* that is at most 90 days old is still there, and so is the tombstone of
\* the last deletion of an id when that is at most 90 days ago.
C16_TombstoneRetention ==
    [][(store'.op = "save" /\ store'.err = "") =>
          /\ \A j \in 1..Len(tombstones') :
                tombstones'[j].deleted_at + TOMBSTONE_RETENTION_DAYS >= now'
          /\ \A j \in 1..Len(tombstones) :
                tombstones[j].deleted_at + TOMBSTONE_RETENTION_DAYS >= now' =>
                   \E i \in 1..Len(tombstones') : tombstones'[i] = tombstones[j]
          /\ \A id \in VaultIds :
                (/\ deletedAt'[id] # None
                 /\ unwrap_or(deletedAt'[id], 0) + TOMBSTONE_RETENTION_DAYS >= now') =>
                   \E i \in 1..Len(tombstones') :
                      tombstones'[i] = Tombstone(id, unwrap_or(deletedAt'[id], 0))
          /\ files'.live.body.tombstones = tombstones']_vars

\* A save on the 90th day after the deletion has kept the tombstone.
C16_Witness ==
    /\ store.open
    /\ store.op = "save"
    /\ store.err = ""
    /\ now = TOMBSTONE_RETENTION_DAYS
    /\ tombstones = <<Tombstone("a", 0)>>
    /\ files.live.body.tombstones = tombstones

(***************************************************************************)
(* Claims about the sync session (SpecHs).                                 *)
(***************************************************************************)

\* C17: the sync code is usable only within CODE_EXPIRY_SECS of sync_start:
\* a joiner whose handshake the initiator has accepted connected no later
\* than that after the listener was started.
C17_CodeUsableOnlyUntilExpiry ==
    \A p \in PeerSet :
       (/\ lst.peer = p
        /\ peers[p].key = InitiatorKey
        /\ lst.pc \in {"recv_payload", "send_payload"} \/ lst.result = "ok") =>
          peers[p].connected_at <= (lst.deadline - ACCEPT_TIMEOUT) + CODE_EXPIRY_SECS

(***************************************************************************)
(* Further claims about sync::merge (SpecMerge).                           *)
(***************************************************************************)

\* C18: with a watermark W > 0, a remote account that differs in time from
\* the local account of its id, both modified after W and not suppressed by
\* a local tombstone, is reported in conflicts with the local and the
\* remote version, and its id is in no other list.
C18_ConflictInNoOtherList ==
    MergeDone =>
       \A r \in RemotesOfRule(4) :
          /\ \E c \in Range(MergeRes.conflicts) :
                /\ c.remote = r
                /\ c.local \in Range(mergeIn.local_accounts)
                /\ c.local.id = r.id
          /\ r.id \notin Ids(MergeRes.to_add)
          /\ r.id \notin Ids(MergeRes.auto_updated)
          /\ r.id \notin Ids(MergeRes.remote_deletions)

\* C19: for every remote tombstone (id, t_del), a local account of that id
\* with last_modified < t_del is in remote_deletions; every entry of
\* remote_deletions is a local account with a newer remote tombstone for
\* its id; no account is listed twice.
C19_RemoteDeletions ==
    MergeDone =>
       LET del == MergeRes.remote_deletions
       IN  /\ \A t \in Range(mergeIn.remote_tombstones) :
                \A l \in Range(mergeIn.local_accounts) :
                   (l.id = t.id /\ l.last_modified < t.deleted_at) =>
                      l \in Range(del)
           /\ \A d \in Range(del) :
                /\ d \in Range(mergeIn.local_accounts)
                /\ \E t \in Range(mergeIn.remote_tombstones) :
                      t.id = d.id /\ t.deleted_at > d.last_modified
           /\ \A i \in 1..Len(del) : \A j \in 1..Len(del) :
                 del[i] = del[j] => i = j

(***************************************************************************)
(* A further claim about the vault under all commands (Spec).              *)
(***************************************************************************)

\* C20: after any sequence of vault operations and sync_confirm
\* applications no two accounts of the vault have the same id.
C20_AccountIdsUnique ==
    \A i \in 1..Len(accounts) : \A j \in 1..Len(accounts) :
       accounts[i].id = accounts[j].id => i = j

(***************************************************************************)
(* SpecSlot: the session slot of SyncManager under the commands that       *)
(* touch it (sync_start and its accept thread, sync_join, sync_cancel,     *)
(* sync_confirm) on a vault nobody edits meanwhile.                        *)
(***************************************************************************)
SlotNext ==
    \/ SyncStart
    \/ \E sid \in 1..MaxSessions : BgAccept(sid)
    \/ \E sid \in 1..MaxSessions : BgExchange(sid)
    \/ JoinCheck
    \/ JoinExchange
    \/ JoinInstall
    \/ SyncCancel
    \/ ConfirmTake
    \/ ConfirmApply(DecisionLists(AllIds))
    \/ ConfirmHistory
    \/ ConfirmClear
    \/ ConfirmReturn

SpecSlot == Init /\ [][SlotNext]_vars

\* The phase held by the slot, "" when the slot is empty.
PhaseOf(s) == unwrap_or(s, ActiveSync(0, "", None)).phase

SessionOf(s) == unwrap_or(s, ActiveSync(0, "", None)).session_id

\* A step that puts the given phase into the slot: the slot held another
\* phase, another session or nothing before it.
PhaseSet(phase) ==
    /\ PhaseOf(slot') = phase
    /\ (PhaseOf(slot) # phase \/ SessionOf(slot) # SessionOf(slot'))

\* C21 (as stated): the phase of the slot becomes Exchanging or MergeReady
\* only in a step of a background accept thread started by sync_start.
C21_OnlyAcceptThreadSetsPhase ==
    [][(PhaseSet("Exchanging") \/ PhaseSet("MergeReady"))
          => \E sid \in DOMAIN bg : BgAccept(sid) \/ BgExchange(sid)]_vars

\* C21 (amended): Exchanging is set only by the accept thread of the session
\* in the slot; MergeReady is set either by that thread, for the session
\* sync_start created, or by sync_join, which installs a session of its own
\* that is MergeReady from the start.
C21_PhaseSetByAcceptThreadOrJoin ==
    [][/\ PhaseSet("Exchanging")
            => /\ SessionOf(slot) = SessionOf(slot')
               /\ SessionOf(slot) \in DOMAIN bg
               /\ BgAccept(SessionOf(slot))
       /\ PhaseSet("MergeReady")
            => \/ /\ SessionOf(slot) = SessionOf(slot')
                  /\ SessionOf(slot) \in DOMAIN bg
                  /\ BgExchange(SessionOf(slot))
               \/ /\ JoinInstall
                  /\ SessionOf(slot') = join.session_id
                  /\ SessionOf(slot') \notin DOMAIN bg]_vars

\* C21 witness: both ways have happened: a joined session is MergeReady in
\* the slot after a session of sync_start reached MergeReady and was
\* confirmed or cancelled.
C21_Witness ==
    /\ PhaseOf(slot) = "MergeReady"
    /\ SessionOf(slot) = 2
    /\ join.pc = "idle"
    /\ bg = <<>>
    /\ cf.pc = "idle"

\* The accept thread has left sync_start's closure.
LstExited == lst.pc \in {"returned", "failed", "finished"}

\* C22: the accept thread of a cancelled session exits no later than its
\* next accept-deadline check: once the accept deadline and one more I/O
\* timeout (the read that was in flight at the deadline) have passed and
\* nothing is left for the thread to read, it has returned, whatever the
\* devices that dialled its listener do.
C22_CancelledThreadExits ==
    (lst.cancelled /\ clock >= lst.deadline + IO_TIMEOUT /\ ~LstCanStep) => LstExited

AuthenticationFailed == "Authentication failed - the sync code may be incorrect"

\* connect (sync_join) of device p has returned an error.
JoinerFailed(p) == peers[p].pc = "returned"

\* The devices that have dialled the listener so far.
Dialled == {p \in PeerSet : peers[p].pc # "start"}

\* C23: a handshake between parties holding different keys ends, on both
\* sides, with the authentication-failed error: the connect of a joiner
\* with another key returns it, and a session whose listener was dialled
\* only by joiners with another key ends with it.
C23_KeyMismatchSurfaced ==
    /\ \A p \in PeerSet :
         (peers[p].kind = "wrong" /\ JoinerFailed(p)) => peers[p].result = AuthenticationFailed
    /\ (/\ lst.pc = "returned"
        /\ Dialled # {}
        /\ \A p \in Dialled : peers[p].kind = "wrong")
          => lst.result = AuthenticationFailed

(***************************************************************************)
(* Calls of pure functions and of commands that only read: callIn holds    *)
(* the arguments, callOut the result once the call has returned.           *)
(***************************************************************************)
CallIdle ==
    /\ VaultInit
    /\ HsIdle
    /\ FileIdle
    /\ conns = <<>>
    /\ device = <<>>
    /\ mergeIn = None
    /\ mergeOut = None

Arg == CHOOSE v \in callIn : TRUE

Result == CHOOSE v \in callOut : TRUE

Returned == callOut # None

Return(cmd, out) ==
    /\ callIn # None
    /\ callOut = None
    /\ Arg.cmd = cmd
    /\ callOut' = Some(out)
    /\ UNCHANGED <<callIn, pin, keys, conns, device, fileVars, hsVars, restVars>>

(***************************************************************************)
(* SpecUi: what the commands of commands.rs return to the UI, computed on  *)
(* two vaults that differ in nothing but the secrets of their accounts.    *)
(* The issuer stands for the fields that are displayed.                    *)
(***************************************************************************)
Secrets == {"S1", "S2"}

SecretAccount(id, issuer, secret) ==
    [id |-> id, issuer |-> issuer, last_modified |-> 0, secret |-> secret]

\* impl From<Account> for AccountDisplay: every field but secret and
\* last_modified.
AccountDisplay(a) == [id |-> a.id, issuer |-> a.issuer]

Displays(s) == [i \in 1..Len(s) |-> AccountDisplay(s[i])]

has_duplicate(stored, issuer, secret) ==
    \E i \in 1..Len(stored) : stored[i].issuer = issuer /\ stored[i].secret = secret

get_accounts(stored) == Displays(stored)

\* add_account once the uri is parsed.
add_account(stored, account) ==
    IF has_duplicate(stored, account.issuer, account.secret)
      THEN [err |-> "This account already exists"]
      ELSE [ok |-> AccountDisplay(account)]

RECURSIVE NewAccounts(_, _)
NewAccounts(stored, incoming) ==
    IF incoming = <<>> THEN <<>>
    ELSE IF has_duplicate(stored, Head(incoming).issuer, Head(incoming).secret)
           THEN NewAccounts(stored, Tail(incoming))
           ELSE <<AccountDisplay(Head(incoming))>> \o NewAccounts(stored, Tail(incoming))

\* import_backup and import_external_preview once the data is parsed.
import_preview(stored, incoming) ==
    [accounts |-> NewAccounts(stored, incoming),
     duplicates |-> Len(incoming) - Len(NewAccounts(stored, incoming))]

merge_result_to_preview(result) ==
    [to_add |-> Displays(result.to_add),
     conflicts |-> [i \in 1..Len(result.conflicts) |->
                      [account_id |-> result.conflicts[i].local.id,
                       local |-> AccountDisplay(result.conflicts[i].local),
                       remote |-> AccountDisplay(result.conflicts[i].remote)]],
     to_delete |-> Displays(result.remote_deletions),
     auto_updated |-> Displays(result.auto_updated),
     unchanged |-> result.unchanged]

\* sync_poll in phase MergeReady.
sync_poll(pending) ==
    [status |-> "merge_ready", merge_preview |-> merge_result_to_preview(pending)]

\* account_to_otp_params: the decoded secret and the name.
account_to_otp_params(a) == [secret |-> <<"base32-decoded", a.secret>>, name |-> a.issuer]

\* build_migration_uri: the protobuf encoding of the parameters, in base64.
build_migration_uri(params) == <<"otpauth-migration://offline?data=", params>>

\* get_export_accounts (vaults of at most EXPORT_BATCH_SIZE accounts: one
\* batch, none for the empty vault).
get_export_accounts(stored) ==
    IF stored = <<>> THEN <<>>
    ELSE <<[migration_uri |-> build_migration_uri(
                [i \in 1..Len(stored) |-> account_to_otp_params(stored[i])]),
            accounts |-> [i \in 1..Len(stored) |-> [issuer |-> stored[i].issuer]],
            batch_index |-> 0,
            batch_count |-> 1]>>

UiIds == {"a", "b"}

UiVaults ==
    {<<>>}
      \cup {<<SecretAccount(i, "I", s)>> : i \in UiIds, s \in Secrets}
      \cup {v \in {<<SecretAccount(i, "I", s), SecretAccount(j, "I", t)>> :
                      i \in UiIds, j \in UiIds, s \in Secrets, t \in Secrets} :
               v[1].id # v[2].id}

\* What a uri, a backup or a peer brings.
UiIncoming == {<<SecretAccount("n", "I", s)>> : s \in Secrets}

\* Two vaults with the same accounts in the same order, secrets apart.
DifferOnlyInSecrets(v, w) ==
    /\ Len(v) = Len(w)
    /\ \A i \in 1..Len(v) : AccountDisplay(v[i]) = AccountDisplay(w[i])
                              /\ v[i].last_modified = w[i].last_modified

UiCommands ==
    {"get_accounts", "add_account", "import_backup", "sync_poll", "get_export_accounts"}

UiCalls ==
    {c \in [cmd : UiCommands, vault : UiVaults, twin : UiVaults, incoming : UiIncoming] :
        DifferOnlyInSecrets(c.vault, c.twin)}

\* The command, run once on each of the two vaults.
OnBoth(cmd, of_vault, of_twin) == Return(cmd, <<of_vault, of_twin>>)

UiGetAccounts == OnBoth("get_accounts", get_accounts(Arg.vault), get_accounts(Arg.twin))

UiAddAccount ==
    OnBoth("add_account", add_account(Arg.vault, Head(Arg.incoming)),
                          add_account(Arg.twin, Head(Arg.incoming)))

UiImportBackup ==
    OnBoth("import_backup", import_preview(Arg.vault, Arg.incoming),
                            import_preview(Arg.twin, Arg.incoming))

UiSyncPoll ==
    OnBoth("sync_poll",
           sync_poll(merge(Arg.vault, <<>>, Arg.incoming, <<>>, None, <<>>)),
           sync_poll(merge(Arg.twin, <<>>, Arg.incoming, <<>>, None, <<>>)))

UiGetExportAccounts ==
    OnBoth("get_export_accounts", get_export_accounts(Arg.vault),
                                  get_export_accounts(Arg.twin))

UiInit ==
    /\ CallIdle
    /\ pin = <<>>
    /\ keys = <<>>
    /\ callIn \in {Some(c) : c \in UiCalls}
    /\ callOut = None

UiNext ==
    \/ UiGetAccounts
    \/ UiAddAccount
    \/ UiImportBackup
    \/ UiSyncPoll
    \/ UiGetExportAccounts

SpecUi == UiInit /\ [][UiNext]_vars

\* C24: no value a command returns to the UI depends on the secret of an
\* account: on two vaults that differ only in account secrets every command
\* returns the same value.
C24_OutputsIndependentOfSecrets ==
    Returned => Result[1] = Result[2]

(***************************************************************************)
(* SpecBackup: backup.rs.  A password is its text and its length in bytes; *)
(* Argon2id and AES-256-GCM are symbolic: a key is determined by password  *)
(* and salt, and a ciphertext opens only under the key and nonce it was    *)
(* made with.  JSON is a set of <<field, value>> pairs per account, read   *)
(* back field by field with serde's defaults.                              *)
(***************************************************************************)
MAGIC == "GHST"

FORMAT_VERSION == 1

MinPasswordLen == 8

BackupNow == 2

Password(text, len) == [text |-> text, len |-> len]

BackupAccount(id, icon, lm) ==
    [id |-> id, issuer |-> "I", secret |-> "S1", icon |-> icon, last_modified |-> lm]

derive_key(password, salt) == <<"argon2id", password, salt>>

\* #[derive(Serialize)] on Account without the last_modified field.
AccountToJsonNoTimestamp(a) ==
    {<<"id", a.id>>, <<"issuer", a.issuer>>, <<"secret", a.secret>>, <<"icon", a.icon>>}

\* #[derive(Serialize)] on Account: every field is written, icon as null or
\* as a string.
AccountToJson(a) ==
    {<<"id", a.id>>, <<"issuer", a.issuer>>, <<"secret", a.secret>>,
     <<"icon", a.icon>>, <<"last_modified", a.last_modified>>}

JsonHas(json, field) == \E kv \in json : kv[1] = field

JsonGet(json, field) == (CHOOSE kv \in json : kv[1] = field)[2]

\* #[derive(Deserialize)] on Account: last_modified defaults to now_secs(),
\* a missing icon to None, any other missing field is an error.
AccountFromJson(json, t) ==
    IF JsonHas(json, "id") /\ JsonHas(json, "issuer") /\ JsonHas(json, "secret")
      THEN Some([id |-> JsonGet(json, "id"),
                 issuer |-> JsonGet(json, "issuer"),
                 secret |-> JsonGet(json, "secret"),
                 icon |-> IF JsonHas(json, "icon") THEN JsonGet(json, "icon") ELSE None,
                 last_modified |-> IF JsonHas(json, "last_modified")
                                     THEN JsonGet(json, "last_modified") ELSE t])
      ELSE None

\* serde_json::to_vec(&BackupPayload).
BackupToJson(version, exported_at, accs) ==
    [version |-> version, exported_at |-> exported_at,
     accounts |-> [i \in 1..Len(accs) |-> AccountToJson(accs[i])]]

aead_encrypt(key, nonce, plaintext) == [key |-> key, nonce |-> nonce, plaintext |-> plaintext]

aead_decrypt(key, nonce, ciphertext) ==
    IF ciphertext.key = key /\ ciphertext.nonce = nonce
      THEN Some(ciphertext.plaintext) ELSE None

export_accounts(accs, password, salt, nonce, exported_at) ==
    IF password.len < MinPasswordLen
      THEN [err |-> "Backup password must be at least 8 characters"]
      ELSE [ok |-> [magic |-> MAGIC, version |-> FORMAT_VERSION, salt |-> salt,
                    nonce |-> nonce,
                    ciphertext |-> aead_encrypt(derive_key(password, salt), nonce,
                                      BackupToJson(FORMAT_VERSION, exported_at, accs))]]

import_accounts(data, password, t) ==
    IF data.magic # MAGIC
      THEN [err |-> "Not a Ghost Auth backup file"]
    ELSE IF data.version # FORMAT_VERSION
      THEN [err |-> "Unsupported backup version"]
    ELSE LET plaintext == aead_decrypt(derive_key(password, data.salt), data.nonce,
                                       data.ciphertext)
         IN  IF plaintext = None
               THEN [err |-> "Decryption failed - wrong password or corrupted file"]
               ELSE LET json == unwrap_or(plaintext, BackupToJson(0, 0, <<>>)).accounts
                        read == [i \in 1..Len(json) |-> AccountFromJson(json[i], t)]
                    IN  IF \E i \in 1..Len(read) : read[i] = None
                          THEN [err |-> "Invalid backup data"]
                          ELSE [ok |-> [i \in 1..Len(read) |->
                                          CHOOSE a \in read[i] : TRUE]]

BackupIcons == {None, Some("google")}

BackupTimes == {0, 1}

BackupLists ==
    {<<>>}
      \cup {<<BackupAccount(i, c, t)>> : i \in UiIds, c \in BackupIcons, t \in BackupTimes}
      \cup {<<BackupAccount("a", c, t), BackupAccount("b", d, u)>> :
              c \in BackupIcons, t \in BackupTimes, d \in BackupIcons, u \in BackupTimes}
      \cup {<<BackupAccount("b", c, t), BackupAccount("a", d, u)>> :
              c \in BackupIcons, t \in BackupTimes, d \in BackupIcons, u \in BackupTimes}

BackupPasswords ==
    {Password(x, n) : x \in {"p", "q"}, n \in {MinPasswordLen - 1, MinPasswordLen}}

BackupCalls ==
    [cmd : {"backup"}, accounts : BackupLists, password : BackupPasswords,
     other : BackupPasswords, salt : {0, 1}, nonce : {0}]

\* export_backup with Arg.password.
ExportBackup ==
    Return("backup",
           [exported |-> export_accounts(Arg.accounts, Arg.password, Arg.salt, Arg.nonce,
                                         BackupNow)])

\* import_backup of what was exported, with Arg.other.
ImportBackup ==
    /\ callIn # None
    /\ Arg.cmd = "backup"
    /\ Returned
    /\ DOMAIN Result = {"exported"}
    /\ "ok" \in DOMAIN Result.exported
    /\ callOut' = Some([exported |-> Result.exported,
                        imported |-> import_accounts(Result.exported.ok, Arg.other,
                                                     BackupNow)])
    /\ UNCHANGED <<callIn, pin, keys, conns, device, fileVars, hsVars, restVars>>

BackupInit ==
    /\ CallIdle
    /\ pin = <<>>
    /\ keys = <<>>
    /\ callIn \in {Some(c) : c \in BackupCalls}
    /\ callOut = None

BackupNext ==
    \/ ExportBackup
    \/ ImportBackup

SpecBackup == BackupInit /\ [][BackupNext]_vars

Imported == Returned /\ "imported" \in DOMAIN Result

\* C25: export_accounts succeeds exactly for passwords of at least 8 bytes,
\* and import_accounts of its output returns the exported list unchanged
\* (same accounts, same order, every field equal, the empty list included)
\* when given the same password and fails when given any other.
C25_BackupRoundTrip ==
    /\ Returned => ("ok" \in DOMAIN Result.exported <=> Arg.password.len >= MinPasswordLen)
    /\ Imported =>
         IF Arg.other = Arg.password
           THEN Result.imported = [ok |-> Arg.accounts]
           ELSE "err" \in DOMAIN Result.imported

\* C25 witness: a list of two accounts, one without an icon, has come back.
C25_Witness ==
    /\ Imported
    /\ Len(Arg.accounts) = 2
    /\ Arg.accounts[1].icon = None
    /\ Result.imported = [ok |-> Arg.accounts]

(***************************************************************************)
(* SpecReorder: Storage::reorder on every vault of up to three accounts    *)
(* and every id sequence of up to three ids, one of them unknown.          *)
(***************************************************************************)
MaxReorderLen == 3

ReorderIds == {"a", "b", "c"}

ListsOver(ids, n) ==
    {s \in UNION {[1..k -> ids] : k \in 0..n} :
        \A i, j \in 1..Len(s) : i # j => s[i] # s[j]}

ReorderVaults ==
    {[i \in 1..Len(s) |-> Account(s[i], "L", 0)] : s \in ListsOver(ReorderIds, MaxReorderLen)}

ReorderArgs == UNION {[1..k -> ReorderIds \cup {"x"}] : k \in 0..MaxReorderLen}

ReorderCalls == [cmd : {"reorder"}, accounts : ReorderVaults, ids : ReorderArgs]

CallReorder ==
    Return("reorder",
           StorageReorder([accounts |-> Arg.accounts, tombstones |-> <<>>], Arg.ids).accounts)

ReorderInit ==
    /\ CallIdle
    /\ pin = <<>>
    /\ keys = <<>>
    /\ callIn \in {Some(c) : c \in ReorderCalls}
    /\ callOut = None

ReorderNext == CallReorder

SpecReorder == ReorderInit /\ [][ReorderNext]_vars

Occurrences(s, a) == Cardinality({i \in 1..Len(s) : s[i] = a})

\* C26: after reorder(ids), whatever ids is (incomplete, with unknown ids,
\* with repeated ids), every account stored before is stored exactly once
\* and nothing else is stored.
C26_ReorderKeepsEachAccountOnce ==
    Returned =>
        /\ \A i \in 1..Len(Arg.accounts) : Occurrences(Result, Arg.accounts[i]) = 1
        /\ Len(Result) = Len(Arg.accounts)

(***************************************************************************)
(* SpecDelete: Storage::delete, as delete_account and sync_confirm call    *)
(* it, on every vault of up to three accounts and every id, stored or not. *)
(***************************************************************************)
DeleteCalls ==
    [cmd : {"delete"}, accounts : ReorderVaults,
     tombstones : {<<>>, <<Tombstone("a", 0)>>},
     id : ReorderIds \cup {"x"}, now : {0, 1}]

CallDelete ==
    Return("delete",
           StorageDelete([accounts |-> Arg.accounts, tombstones |-> Arg.tombstones],
                         Arg.id, Arg.now))

DeleteInit ==
    /\ CallIdle
    /\ pin = <<>>
    /\ keys = <<>>
    /\ callIn \in {Some(c) : c \in DeleteCalls}
    /\ callOut = None

DeleteNext == CallDelete

SpecDelete == DeleteInit /\ [][DeleteNext]_vars

\* C27: a tombstone that a delete appends carries the id of an account
\* that was stored immediately before that delete.
C27_TombstoneOfStoredAccount ==
    Returned =>
        \A i \in (Len(Arg.tombstones) + 1)..Len(Result.tombstones) :
            Result.tombstones[i].id \in Ids(Arg.accounts)

(***************************************************************************)
(* SpecKey: Storage::load_or_create_key over successive startups.  A key   *)
(* is a number: 0 is a key from an earlier installation, n > 0 the n-th    *)
(* key drawn from OsRng; BadKeyFile is a key file that is not 32 bytes     *)
(* long.  keystore::load_key gives None for an absent entry and for every  *)
(* error of the platform keystore alike; keystore::store_key can fail.     *)
(***************************************************************************)
MaxKeys == 3

MaxStartups == 4

BadKeyFile == 0 - 1

KeyState(keystore, file) ==
    [keystore |-> keystore, file |-> file, drawn |-> 0, startups |-> 0,
     returned |-> None, before |-> None, err |-> ""]

\* fs::remove_file, its result ignored.
RemoveFile(file, removed) == IF removed THEN None ELSE file

\* load_or_create_key.  load_ok, store_ok, write_ok and removed are what
\* the keystore and the file system do in this call.
load_or_create_key(k, load_ok, store_ok, write_ok, removed) ==
    LET loaded == IF load_ok THEN k.keystore ELSE None
        next   == [k EXCEPT !.startups = @ + 1, !.err = "",
                            !.before = IF k.returned = None THEN @ ELSE k.returned]
    IN  IF loaded # None
          THEN [next EXCEPT !.file = RemoveFile(k.file, removed),
                            !.returned = loaded]
        ELSE IF k.file # None
          THEN IF k.file = Some(BadKeyFile)
                 THEN [next EXCEPT !.returned = None, !.err = "Invalid encryption key"]
                 ELSE IF store_ok
                        THEN [next EXCEPT !.keystore = k.file,
                                          !.file = RemoveFile(k.file, removed),
                                          !.returned = k.file]
                        ELSE [next EXCEPT !.returned = k.file]
        ELSE IF store_ok
          THEN [next EXCEPT !.drawn = @ + 1, !.keystore = Some(k.drawn + 1),
                            !.returned = Some(k.drawn + 1)]
        ELSE IF write_ok
          THEN [next EXCEPT !.drawn = @ + 1, !.file = Some(k.drawn + 1),
                            !.returned = Some(k.drawn + 1)]
          ELSE [next EXCEPT !.drawn = @ + 1, !.returned = None,
                            !.err = "Failed to initialize encryption"]

\* The application starts: Storage::new calls load_or_create_key.
Startup ==
    /\ keys.startups < MaxStartups
    /\ keys.drawn < MaxKeys
    /\ \E load_ok \in BOOLEAN, store_ok \in BOOLEAN, write_ok \in BOOLEAN,
          removed \in BOOLEAN :
         keys' = load_or_create_key(keys, load_ok, store_ok, write_ok, removed)
    /\ UNCHANGED <<callIn, callOut, pin, conns, device, fileVars, hsVars, restVars>>

KeyInit ==
    /\ CallIdle
    /\ pin = <<>>
    /\ callIn = None
    /\ callOut = None
    /\ keys \in {KeyState(ks, f) : ks \in {None, Some(0)},
                                   f \in {None, Some(0), Some(BadKeyFile)}}

KeyNext == Startup

SpecKey == KeyInit /\ [][KeyNext]_vars

\* C28: the key a successful startup returns is the key the successful
\* startup before it returned (a later startup obtains the same key again).
C28_LaterStartupSameKey ==
    (keys # <<>> /\ keys.returned # None /\ keys.before # None)
        => keys.returned = keys.before

(***************************************************************************)
(* SpecPin: PinManager (pin.rs).  The variable pin holds the manager's     *)
(* RateLimitState, the file pin.ratelimit, whether pin.hash exists, the    *)
(* number of unused recovery codes, the clock in seconds and the outcome   *)
(* of the last call.  streak and last_fail record what really happened:    *)
(* the failed attempts since the last success and the time of the last     *)
(* one; carried is whether the manager's state still is that history;      *)
(* faults counts the writes and reads of pin.ratelimit that failed.        *)
(***************************************************************************)
MaxFailures == 10

MaxNow == 1600

MaxCodes == 1

MaxFaults == 1

RateLimitState(n, last) == [failed_attempts |-> n, last_failure_epoch |-> last]

NewRateLimitState == RateLimitState(0, None)

\* 5..=8 => 30 instead of 5..=7 => 30.
lockout_secs_late(failed_attempts) ==
    IF failed_attempts <= 4 THEN 0
    ELSE IF failed_attempts <= 8 THEN 30
    ELSE IF failed_attempts <= 9 THEN 300
    ELSE 900

\* The match of lockout_duration; 0 stands for `return None`.
lockout_secs(failed_attempts) ==
    IF failed_attempts <= 4 THEN 0
    ELSE IF failed_attempts <= 7 THEN 30
    ELSE IF failed_attempts <= 9 THEN 300
    ELSE 900

\* RateLimitState::lockout_duration at time t: the seconds that remain.
lockout_duration(rl, t) ==
    IF lockout_secs(rl.failed_attempts) = 0 \/ rl.last_failure_epoch = None
      THEN None
      ELSE LET elapsed == saturating_sub(t, unwrap_or(rl.last_failure_epoch, 0))
           IN  IF elapsed < lockout_secs(rl.failed_attempts)
                 THEN Some(lockout_secs(rl.failed_attempts) - elapsed)
                 ELSE None

record_failure(rl, t) == RateLimitState(rl.failed_attempts + 1, Some(t))

\* persist_rate_limit: the result of the write is dropped.
persist_rate_limit(file, rl, write_ok) == IF write_ok THEN Some(rl) ELSE file

\* load_rate_limit: a missing or unreadable file gives a new state.
load_rate_limit(file, read_ok) ==
    IF read_ok THEN unwrap_or(file, NewRateLimitState) ELSE NewRateLimitState

PinState ==
    [rl |-> NewRateLimitState, file |-> None, has_pin |-> TRUE, codes |-> MaxCodes,
     now |-> 0, op |-> "new", result |-> "", faults |-> 0,
     streak |-> 0, last_fail |-> None, carried |-> TRUE]

PinRest == <<callIn, callOut, keys, conns, device, fileVars, hsVars, restVars>>

\* The part of verify_pin and verify_recovery_code that is the same: the
\* lockout check, then reset or record_failure, then persist.
Attempt(p, op, valid, write_ok) ==
    LET q == [p EXCEPT !.op = op, !.faults = IF write_ok THEN @ ELSE @ + 1]
    IN  IF lockout_duration(p.rl, p.now) # None
          THEN [p EXCEPT !.op = op, !.result = "Too many attempts"]
        ELSE IF valid
          THEN [q EXCEPT !.result = "true", !.rl = NewRateLimitState,
                         !.file = persist_rate_limit(p.file, NewRateLimitState, write_ok),
                         !.streak = 0, !.last_fail = None, !.carried = TRUE]
          ELSE [q EXCEPT !.result = "false", !.rl = record_failure(p.rl, p.now),
                         !.file = persist_rate_limit(p.file, record_failure(p.rl, p.now),
                                                     write_ok),
                         !.streak = p.streak + 1, !.last_fail = Some(p.now)]

\* The manager rejects attempts now.
LockedOut == lockout_duration(pin.rl, pin.now) # None

\* verify_pin with the right or a wrong PIN.
VerifyPin ==
    /\ pin.has_pin
    /\ \E valid \in BOOLEAN, write_ok \in BOOLEAN :
         /\ ~valid => pin.rl.failed_attempts < MaxFailures \/ LockedOut
         /\ ~write_ok => pin.faults < MaxFaults /\ ~LockedOut
         /\ pin' = Attempt(pin, "verify_pin", valid, write_ok)
    /\ UNCHANGED PinRest

\* verify_recovery_code with an unused code or a wrong one; a match
\* marks the code used, removes the PIN and the rate limit file.
VerifyRecoveryCode ==
    /\ pin.has_pin
    /\ \E valid \in BOOLEAN, write_ok \in BOOLEAN :
         /\ valid => pin.codes > 0
         /\ ~valid => pin.rl.failed_attempts < MaxFailures \/ LockedOut
         /\ ~write_ok => pin.faults < MaxFaults /\ ~LockedOut
         /\ LET q == Attempt(pin, "verify_recovery_code", valid, write_ok)
            IN  pin' = IF q.result = "true"
                         THEN [q EXCEPT !.codes = @ - 1, !.has_pin = FALSE, !.file = None]
                         ELSE q
    /\ UNCHANGED PinRest

\* set_pin when no PIN is set: pin.hash and new recovery codes are written.
SetPin ==
    /\ ~pin.has_pin
    /\ pin' = [pin EXCEPT !.has_pin = TRUE, !.codes = MaxCodes, !.op = "set_pin",
                          !.result = ""]
    /\ UNCHANGED PinRest

\* PinManager::new on the same directory (the application is restarted).
NewPinManager ==
    /\ \E read_ok \in BOOLEAN :
         /\ ~read_ok => pin.faults < MaxFaults
         /\ pin' = [pin EXCEPT !.rl = load_rate_limit(pin.file, read_ok),
                            !.op = "new", !.result = "",
                            !.faults = IF read_ok THEN @ ELSE @ + 1,
                            !.carried = pin.carried
                                          /\ load_rate_limit(pin.file, read_ok) = pin.rl]
    /\ UNCHANGED PinRest

\* The lockout that the claim gives for n failures, in seconds.
ClaimedSecs(n) == IF n <= 4 THEN 0 ELSE IF n <= 7 THEN 30 ELSE IF n <= 9 THEN 300 ELSE 900

\* The instants at which the lockout of n failures, the last at time last,
\* changes: its last second and its end.
PinInstants(n, last) ==
    IF last = None \/ n <= 4 THEN {}
    ELSE {unwrap_or(last, 0) + ClaimedSecs(n) - 1, unwrap_or(last, 0) + ClaimedSecs(n)}

\* Time passes, up to one of those instants.
PinTick ==
    /\ \E t \in PinInstants(pin.rl.failed_attempts, pin.rl.last_failure_epoch) :
         /\ pin.now < t
         /\ t <= MaxNow
         /\ pin' = [pin EXCEPT !.now = t, !.op = "tick", !.result = ""]
    /\ UNCHANGED PinRest

PinInit ==
    /\ CallIdle
    /\ keys = <<>>
    /\ callIn = None
    /\ callOut = None
    /\ pin = PinState

PinNext ==
    \/ VerifyPin
    \/ VerifyRecoveryCode
    \/ SetPin
    \/ NewPinManager
    \/ PinTick

SpecPin == PinInit /\ [][PinNext]_vars

\* The step is a call of verify_pin or verify_recovery_code.
AttemptStep ==
    /\ pin'.op \in {"verify_pin", "verify_recovery_code"}
    /\ pin' # pin

\* The lockout as the claim states it, for n failures of which the last was
\* at time last: it holds at time t.
ClaimedLockout(n, last, t) ==
    /\ n >= 5
    /\ last # None
    /\ t - unwrap_or(last, 0) < ClaimedSecs(n)

MAX_PAYLOAD_SIZE == 10485760

to_be_bytes(n) == <<(n \div 16777216) % 256, (n \div 65536) % 256, (n \div 256) % 256, n % 256>>

from_be_bytes(b) == b[1] * 16777216 + b[2] * 65536 + b[3] * 256 + b[4]

Unsealed == 0 - 1

Frame(len_bytes, bytes, sealed) == [len_bytes |-> len_bytes, bytes |-> bytes, sealed |-> sealed]

NoFrame == Frame(<<0, 0, 0, 0>>, 0, Unsealed)

\* A cipher that appends no tag.
session_encrypt_no_tag(plaintext_len) == plaintext_len

\* session_encrypt: the length of the ciphertext, AES-GCM appends a 16-byte tag.
session_encrypt(plaintext_len) == plaintext_len + 16

\* session_decrypt: the JSON length, or Unsealed when the tag does not verify.
session_decrypt(frame, ciphertext_len) ==
    IF frame.sealed # Unsealed /\ ciphertext_len = frame.sealed + 16
      THEN frame.sealed ELSE Unsealed

Sent(err, frame) == [err |-> err, frame |-> frame]

Received(err, json_len, body_read) == [err |-> err, json_len |-> json_len, body_read |-> body_read]

\* SyncConnection::send_payload: three writes to the stream.
tcp_send_payload(json_len, write_ok) ==
    IF json_len > MAX_PAYLOAD_SIZE THEN Sent("Sync payload too large", NoFrame)
    ELSE LET body_len == 12 + session_encrypt(json_len)
         IN  IF write_ok THEN Sent("", Frame(to_be_bytes(body_len), 4 + body_len, json_len))
                         ELSE Sent("Sync connection error", NoFrame)

\* SyncConnection::recv_payload: the length field is read first, the body
\* only when the length passed both checks; body_read is the number of
\* body bytes taken from the stream.
tcp_recv_payload(frame) ==
    LET len == from_be_bytes(frame.len_bytes)
    IN  IF frame.bytes < 4 THEN Received("Sync connection error", Unsealed, 0)
        ELSE IF len < 28 THEN Received("Sync payload too short to be valid", Unsealed, 0)
        ELSE IF len > MAX_PAYLOAD_SIZE + 28 THEN Received("Sync payload too large", Unsealed, 0)
        ELSE IF frame.bytes - 4 < len
          THEN Received("Sync connection error", Unsealed, frame.bytes - 4)
        ELSE IF session_decrypt(frame, len - 12) = Unsealed
          THEN Received("Session decryption failed", Unsealed, len)
        ELSE Received("", session_decrypt(frame, len - 12), len)

\* WsSyncConnection::send_payload: one binary message.
ws_send_payload(json_len, write_ok) ==
    IF json_len > MAX_PAYLOAD_SIZE THEN Sent("Sync payload too large", NoFrame)
    ELSE LET body_len == 12 + session_encrypt(json_len)
         IN  IF write_ok THEN Sent("", Frame(to_be_bytes(body_len), 4 + body_len, json_len))
                         ELSE Sent("Sync connection error", NoFrame)

\* WsSyncConnection::recv_payload: recv_binary_any returns the whole
\* message, then the checks are made on it.
ws_recv_payload(frame) ==
    LET len == from_be_bytes(frame.len_bytes)
        body_read == IF frame.bytes < 4 THEN 0 ELSE frame.bytes - 4
    IN  IF frame.bytes < 4 + 28 THEN Received("Invalid sync frame: too short", Unsealed, body_read)
        ELSE IF len < 28 THEN Received("Sync payload too short to be valid", Unsealed, body_read)
        ELSE IF len > MAX_PAYLOAD_SIZE + 28
          THEN Received("Sync payload too large", Unsealed, body_read)
        ELSE IF frame.bytes < 4 + len THEN Received("Incomplete sync frame", Unsealed, body_read)
        ELSE IF session_decrypt(frame, len - 12) = Unsealed
          THEN Received("Session decryption failed", Unsealed, body_read)
        ELSE Received("", session_decrypt(frame, len - 12), body_read)

Transports == {"tcp", "ws"}

\* Lengths of serialized payloads around the limit.
PayloadLens == {0, 1, MAX_PAYLOAD_SIZE - 1, MAX_PAYLOAD_SIZE, MAX_PAYLOAD_SIZE + 1}

\* Length fields a peer may write: around both limits, and large ones.
LengthFields ==
    {to_be_bytes(n) : n \in {0, 27, 28, 29, MAX_PAYLOAD_SIZE + 27, MAX_PAYLOAD_SIZE + 28,
                             MAX_PAYLOAD_SIZE + 29}}
      \cup {<<127, 0, 0, 0>>, <<127, 255, 255, 255>>}

\* Numbers of bytes a peer may put on the wire before it stops.
WireBytes == {0, 3, 4, 31, 32, 33, MAX_PAYLOAD_SIZE + 31, MAX_PAYLOAD_SIZE + 32,
              MAX_PAYLOAD_SIZE + 33}

\* The frames the peer's send_payload writes.
SentFrames(transport) ==
    {(IF transport = "tcp" THEN tcp_send_payload(n, TRUE) ELSE ws_send_payload(n, TRUE)).frame :
        n \in {m \in PayloadLens : m <= MAX_PAYLOAD_SIZE}}

FrameCalls ==
    {[cmd |-> "send_payload", transport |-> t, json_len |-> n, write_ok |-> w] :
        t \in Transports, n \in PayloadLens, w \in BOOLEAN}
      \cup {[cmd |-> "recv_payload", transport |-> t, frame |-> Frame(b, n, Unsealed)] :
              t \in Transports, b \in LengthFields, n \in WireBytes}
      \cup {[cmd |-> "recv_payload", transport |-> t, frame |-> f] :
              t \in Transports, f \in SentFrames("tcp") \cup SentFrames("ws")}

SendPayload ==
    /\ callIn # None
    /\ Return("send_payload",
              IF Arg.transport = "tcp" THEN tcp_send_payload(Arg.json_len, Arg.write_ok)
                                       ELSE ws_send_payload(Arg.json_len, Arg.write_ok))

RecvPayload ==
    /\ callIn # None
    /\ Return("recv_payload",
              IF Arg.transport = "tcp" THEN tcp_recv_payload(Arg.frame)
                                       ELSE ws_recv_payload(Arg.frame))

FrameInit ==
    /\ CallIdle
    /\ pin = <<>>
    /\ keys = <<>>
    /\ callIn \in {Some(c) : c \in FrameCalls}
    /\ callOut = None

FrameNext ==
    \/ SendPayload
    \/ RecvPayload

SpecFrame == FrameInit /\ [][FrameNext]_vars

\* The call received a frame whose length field is outside 28 .. 10 MiB + 28.
LengthOutOfRange ==
    /\ Returned
    /\ Arg.cmd = "recv_payload"
    /\ Arg.frame.bytes >= 4
    /\ \/ from_be_bytes(Arg.frame.len_bytes) < 28
       \/ from_be_bytes(Arg.frame.len_bytes) > 10 * 1024 * 1024 + 28

\* What is stated of send_payload: a payload of at most 10 MiB whose
\* writes succeed goes out with a length field of its length plus 28,
\* inside 28 .. 10 MiB + 28, followed by that many bytes; a frame so
\* written is accepted by recv_payload of either transport.
SentFrameAccepted ==
    /\ (Returned /\ Arg.cmd = "send_payload" /\ Arg.json_len <= 10 * 1024 * 1024
          /\ Arg.write_ok) =>
         /\ Result.err = ""
         /\ from_be_bytes(Result.frame.len_bytes) = Arg.json_len + 28
         /\ from_be_bytes(Result.frame.len_bytes) >= 28
         /\ from_be_bytes(Result.frame.len_bytes) <= 10 * 1024 * 1024 + 28
         /\ Result.frame.bytes = 4 + from_be_bytes(Result.frame.len_bytes)
    /\ (Returned /\ Arg.cmd = "send_payload" /\ Arg.json_len > 10 * 1024 * 1024) =>
         Result.err = "Sync payload too large"
    /\ (Returned /\ Arg.cmd = "recv_payload" /\ Arg.frame.sealed # Unsealed) =>
         /\ Result.err = ""
         /\ Result.json_len = Arg.frame.sealed

\* C30 (as stated): on both transports a frame whose length field is below
\* 28 or above 10 MiB + 28 is rejected before any byte of its body is
\* read, and every frame of a successful send_payload is in range.
C30_RejectedBeforeBodyRead ==
    /\ LengthOutOfRange => (Result.err # "" /\ Result.body_read = 0)
    /\ SentFrameAccepted

\* C30 (amended): on both transports a frame whose length field is below
\* 28 or above 10 MiB + 28 is rejected; on raw TCP before any byte of its
\* body is read, on WebSocket after the whole binary message was received;
\* and every frame of a successful send_payload is in range.
C30_LengthFieldRange ==
    /\ LengthOutOfRange => Result.err # ""
    /\ (LengthOutOfRange /\ Arg.transport = "tcp") => Result.body_read = 0
    /\ (LengthOutOfRange /\ Arg.transport = "ws") => Result.body_read = Arg.frame.bytes - 4
    /\ SentFrameAccepted

\* C30 witness: the WebSocket receiver has accepted the frame that
\* send_payload writes for a payload of exactly 10 MiB.
C30_Witness ==
    /\ Returned
    /\ Arg.cmd = "recv_payload"
    /\ Arg.transport = "ws"
    /\ Arg.frame.sealed = MAX_PAYLOAD_SIZE
    /\ Result.err = ""

(***************************************************************************)
(* SpecSession: the connections a joiner makes with one sync code          *)
(* (sync_transport.rs, sync.rs).  On each connection the joiner runs       *)
(* handshake_joiner, send_payload and recv_payload.  The other end is the  *)
(* initiator, which runs handshake_initiator with a nonce of its own,      *)
(* recv_payload and send_payload, or a host that holds no key and writes   *)
(* what it has recorded on the earlier connections.  OsRng is taken not to *)
(* repeat a 32-byte nonce: the nonce of connection c is Nonce(c).          *)
(***************************************************************************)
MaxConns == 2

ConnSet == 1 .. MaxConns

\* session_encrypt of a payload under a session key: the frame opens under
\* that key and no other; from and conn say who wrote it, and where.
SealedFrame(session_key, from, conn) == [key |-> session_key, from |-> from, conn |-> conn]

\* session_decrypt: the AES-GCM tag verifies under the key that sealed.
Opens(session_key, frame) == frame.key = session_key

\* A key derivation that leaves the nonce out.
session_key_without_nonce(key, nonce) == <<"session", key, Junk>>

\* derive_session_key as handshake_initiator and handshake_joiner call it.
SessionKeyOf(key, nonce) == derive_session_key(key, nonce)

InitiatorEnd == [pc |-> "start", nonce |-> Junk, session_key |-> Junk, got |-> None]

JoinerEnd == [pc |-> "start", nonce |-> Junk, our_hmac |-> Junk, session_key |-> Junk, got |-> None]

\* One TCP connection of the joiner: who answers it, what each end has
\* written that the other has not read yet.
NewConn == [peer |-> "", ini |-> InitiatorEnd, joi |-> JoinerEnd, toJoi |-> <<>>, toIni |-> <<>>]

\* What a host on the network has seen so far.
NoRecord == [nonces |-> {}, acks |-> {}, frames |-> {}]

SessionRest == <<pin, keys, device, callIn, callOut, fileVars, hsVars, restVars>>

\* connect: the joiner dials; the initiator's listener or another host answers.
Dial(c) ==
    /\ conns.ends[c].joi.pc = "start"
    /\ \A d \in ConnSet : d < c => conns.ends[d].joi.pc # "start"
    /\ \E peer \in {"initiator", "replay"} :
         conns' = [conns EXCEPT !.ends[c].peer = peer, !.ends[c].joi.pc = "read_nonce"]
    /\ UNCHANGED SessionRest

\* handshake_initiator, step 1: a nonce is drawn and sent.
IniSendNonce(c) ==
    /\ conns.ends[c].peer = "initiator"
    /\ conns.ends[c].ini.pc = "start"
    /\ conns' = [conns EXCEPT !.ends[c].ini.pc = "read_hmac",
                              !.ends[c].ini.nonce = Nonce(c),
                              !.ends[c].toJoi = Append(@, Nonce(c)),
                              !.seen.nonces = @ \cup {Nonce(c)}]
    /\ UNCHANGED SessionRest

\* handshake_initiator, steps 2 to 4 and the key derivation.
IniReadHmac(c) ==
    /\ conns.ends[c].ini.pc = "read_hmac"
    /\ conns.ends[c].toIni # <<>>
    /\ LET e == conns.ends[c]
           joiner_hmac == Head(e.toIni)
           ack == compute_hmac(InitiatorKey, joiner_hmac)
       IN  conns' =
             IF constant_time_eq(joiner_hmac, compute_hmac(InitiatorKey, e.ini.nonce))
               THEN [conns EXCEPT !.ends[c].ini.pc = "recv_payload",
                                  !.ends[c].ini.session_key = SessionKeyOf(InitiatorKey, e.ini.nonce),
                                  !.ends[c].toIni = Tail(@),
                                  !.ends[c].toJoi = Append(@, ack),
                                  !.seen.acks = @ \cup {ack}]
               ELSE [conns EXCEPT !.ends[c].ini.pc = "failed", !.ends[c].toIni = <<>>]
    /\ UNCHANGED SessionRest

\* The next bytes the joiner reads on connection c: what the initiator
\* wrote, or what the other host chooses among its records.
Incoming(c, kind) ==
    IF conns.ends[c].peer = "initiator"
      THEN IF conns.ends[c].toJoi = <<>> THEN {} ELSE {Head(conns.ends[c].toJoi)}
      ELSE conns.seen[kind]

Consumed(c) == IF conns.ends[c].peer = "initiator" THEN Tail(conns.ends[c].toJoi) ELSE <<>>

\* handshake_joiner, steps 1 and 2.
JoiReadNonce(c) ==
    /\ conns.ends[c].joi.pc = "read_nonce"
    /\ \E nonce \in Incoming(c, "nonces") :
         conns' = [conns EXCEPT !.ends[c].joi.pc = "read_ack",
                                !.ends[c].joi.nonce = nonce,
                                !.ends[c].joi.our_hmac = compute_hmac(InitiatorKey, nonce),
                                !.ends[c].toJoi = Consumed(c),
                                !.ends[c].toIni = Append(@, compute_hmac(InitiatorKey, nonce))]
    /\ UNCHANGED SessionRest

\* handshake_joiner, steps 3 and 4 and the key derivation.
JoiReadAck(c) ==
    /\ conns.ends[c].joi.pc = "read_ack"
    /\ \E ack \in Incoming(c, "acks") :
         LET j == conns.ends[c].joi
         IN  conns' =
               IF constant_time_eq(ack, compute_hmac(InitiatorKey, j.our_hmac))
                 THEN [conns EXCEPT !.ends[c].joi.pc = "send_payload",
                                    !.ends[c].joi.session_key = SessionKeyOf(InitiatorKey, j.nonce),
                                    !.ends[c].toJoi = Consumed(c)]
                 ELSE [conns EXCEPT !.ends[c].joi.pc = "failed", !.ends[c].toJoi = <<>>]
    /\ UNCHANGED SessionRest

\* sync_join: send_payload.
JoiSend(c) ==
    /\ conns.ends[c].joi.pc = "send_payload"
    /\ LET frame == SealedFrame(conns.ends[c].joi.session_key, "joiner", c)
       IN  conns' = [conns EXCEPT !.ends[c].joi.pc = "recv_payload",
                                  !.ends[c].toIni = Append(@, frame),
                                  !.seen.frames = @ \cup {frame}]
    /\ UNCHANGED SessionRest

\* The accept thread: recv_payload.
IniRecv(c) ==
    /\ conns.ends[c].ini.pc = "recv_payload"
    /\ conns.ends[c].toIni # <<>>
    /\ LET frame == Head(conns.ends[c].toIni)
       IN  conns' =
             IF Opens(conns.ends[c].ini.session_key, frame)
               THEN [conns EXCEPT !.ends[c].ini.pc = "send_payload",
                                  !.ends[c].ini.got = Some(frame),
                                  !.ends[c].toIni = Tail(@)]
               ELSE [conns EXCEPT !.ends[c].ini.pc = "failed", !.ends[c].toIni = <<>>]
    /\ UNCHANGED SessionRest

\* The accept thread: send_payload.
IniSend(c) ==
    /\ conns.ends[c].ini.pc = "send_payload"
    /\ LET frame == SealedFrame(conns.ends[c].ini.session_key, "initiator", c)
       IN  conns' = [conns EXCEPT !.ends[c].ini.pc = "finished",
                                  !.ends[c].toJoi = Append(@, frame),
                                  !.seen.frames = @ \cup {frame}]
    /\ UNCHANGED SessionRest

\* sync_join: recv_payload.
JoiRecv(c) ==
    /\ conns.ends[c].joi.pc = "recv_payload"
    /\ \E frame \in Incoming(c, "frames") :
         conns' =
           IF Opens(conns.ends[c].joi.session_key, frame)
             THEN [conns EXCEPT !.ends[c].joi.pc = "finished",
                                !.ends[c].joi.got = Some(frame),
                                !.ends[c].toJoi = Consumed(c)]
             ELSE [conns EXCEPT !.ends[c].joi.pc = "failed", !.ends[c].toJoi = <<>>]
    /\ UNCHANGED SessionRest

SessionInit ==
    /\ VaultInit
    /\ HsIdle
    /\ FileIdle
    /\ mergeIn = None
    /\ mergeOut = None
    /\ pin = <<>>
    /\ keys = <<>>
    /\ callIn = None
    /\ callOut = None
    /\ device = <<>>
    /\ conns = [ends |-> [c \in ConnSet |-> NewConn], seen |-> NoRecord]

SessionNext ==
    \/ \E c \in ConnSet : Dial(c)
    \/ \E c \in ConnSet : IniSendNonce(c)
    \/ \E c \in ConnSet : IniReadHmac(c)
    \/ \E c \in ConnSet : JoiReadNonce(c)
    \/ \E c \in ConnSet : JoiReadAck(c)
    \/ \E c \in ConnSet : JoiSend(c)
    \/ \E c \in ConnSet : IniRecv(c)
    \/ \E c \in ConnSet : IniSend(c)
    \/ \E c \in ConnSet : JoiRecv(c)

SpecSession == SessionInit /\ [][SessionNext]_vars

\* The end has completed its handshake.
HandshakeDone(end) == end.pc \in {"send_payload", "recv_payload", "finished"}

\* Initiator and joiner have both completed the handshake on connection c.
BothDone(c) ==
    /\ conns.ends[c].peer = "initiator"
    /\ HandshakeDone(conns.ends[c].ini)
    /\ HandshakeDone(conns.ends[c].joi)

\* What is stated of one connection: both ends hold the key derived from
\* the shared key and the initiator's nonce of the connection, and an end
\* that has read a payload has read the frame the other end sealed there.
SameSessionKey ==
    \A c \in ConnSet : BothDone(c) =>
        /\ conns.ends[c].ini.session_key = conns.ends[c].joi.session_key
        /\ conns.ends[c].ini.session_key = <<"session", InitiatorKey, conns.ends[c].ini.nonce>>
        /\ conns.ends[c].ini.pc # "failed"
        /\ conns.ends[c].joi.pc # "failed"
        /\ conns.ends[c].ini.got \in {None, Some(SealedFrame(conns.ends[c].joi.session_key, "joiner", c))}
        /\ conns.ends[c].joi.got \in {None, Some(SealedFrame(conns.ends[c].ini.session_key, "initiator", c))}

\* C31 (as stated): both ends of a connection hold the same session key,
\* and the session key an end holds on one connection opens no frame that
\* was written on another connection made with the same sync code.
C31_SessionKeyPerConnection ==
    /\ SameSessionKey
    /\ \A c \in ConnSet, frame \in conns.seen.frames :
         (HandshakeDone(conns.ends[c].joi) /\ frame.conn # c)
            => ~Opens(conns.ends[c].joi.session_key, frame)

\* C31 (amended): both ends of a connection hold the same session key; the
\* keys of two connections differ when their nonces differ, which holds of
\* every two connections answered by the initiator; the joiner adds no
\* randomness of its own, so on a connection where it read a nonce again
\* it holds the key of the connection that nonce was drawn for; a key
\* opens a frame of another connection only if the frame's writer held
\* the same nonce.
C31_SessionKeyPerNonce ==
    /\ SameSessionKey
    /\ \A c \in ConnSet, d \in ConnSet :
         (HandshakeDone(conns.ends[c].joi) /\ HandshakeDone(conns.ends[d].joi)) =>
            /\ (conns.ends[c].joi.session_key = conns.ends[d].joi.session_key)
                 <=> (conns.ends[c].joi.nonce = conns.ends[d].joi.nonce)
            /\ (c # d /\ conns.ends[c].peer = "initiator" /\ conns.ends[d].peer = "initiator")
                 => conns.ends[c].joi.session_key # conns.ends[d].joi.session_key
    /\ \A c \in ConnSet, frame \in conns.seen.frames :
         (HandshakeDone(conns.ends[c].joi) /\ frame.conn # c
            /\ Opens(conns.ends[c].joi.session_key, frame))
            => conns.ends[c].joi.nonce =
                 (IF frame.from = "joiner" THEN conns.ends[frame.conn].joi.nonce
                                           ELSE conns.ends[frame.conn].ini.nonce)

\* C31 witness: two connections answered by the initiator have finished the
\* exchange, each end having read the payload of the other.
C31_Witness ==
    /\ conns # <<>>
    /\ \A c \in ConnSet :
         /\ c <= 2 => BothDone(c)
         /\ c <= 2 => conns.ends[c].ini.pc = "finished"
         /\ c <= 2 => conns.ends[c].joi.pc = "finished"

(***************************************************************************)
(* SpecImport: import_backup_confirm and import_external_confirm           *)
(* (commands.rs) once the data is parsed: deduplicate_and_import on a      *)
(* vault and a list of imported accounts.                                  *)
(***************************************************************************)
MaxImportLen == 2

ImportAccount(id, issuer, label, secret) == [id |-> id, issuer |-> issuer, label |-> label, secret |-> secret]

Triple(a) == <<a.issuer, a.label, a.secret>>

\* uuid::Uuid::new_v4 for the k-th account of the import.
NewUuid(k) == <<"uuid", k>>

\* is_duplicate: the test against `existing`, the triples collected from
\* storage.list() before the loop.
IsDuplicate(existing, account) == \E i \in 1..Len(existing) : Triple(existing[i]) = Triple(account)

\* The loop of deduplicate_and_import from the k-th imported account on;
\* the fail-th call of storage.add returns the error of save, with the
\* account already pushed.
RECURSIVE ImportLoop(_, _, _, _, _, _)
ImportLoop(existing, current, added, imported, k, fail) ==
    IF k > Len(imported) THEN [err |-> "", accounts |-> current, added |-> added]
    ELSE IF IsDuplicate(existing, imported[k])
      THEN ImportLoop(existing, current, added, imported, k + 1, fail)
    ELSE LET new_account == [imported[k] EXCEPT !.id = NewUuid(k)]
         IN  IF Len(added) + 1 = fail
               THEN [err |-> "save", accounts |-> Append(current, new_account), added |-> <<>>]
               ELSE ImportLoop(existing, Append(current, new_account),
                               Append(added, imported[k]), imported, k + 1, fail)

deduplicate_and_import(imported, stored, fail) == ImportLoop(stored, stored, <<>>, imported, 1, fail)

ImportTriples == {ImportAccount("", i, l, s) : i \in {"x", "y"}, l \in {"l"}, s \in {"s", "t"}}

ImportLists == UNION {[1..n -> ImportTriples] : n \in 0..MaxImportLen}

ImportVaults ==
    {[i \in 1..Len(v) |-> [v[i] EXCEPT !.id = <<"stored", i>>]] : v \in ImportLists}

ImportCalls ==
    {[cmd |-> "import_confirm", vault |-> v, accounts |-> a, fail |-> f] :
        v \in ImportVaults, a \in ImportLists, f \in 0..MaxImportLen}

ImportConfirm ==
    /\ callIn # None
    /\ Return("import_confirm", deduplicate_and_import(Arg.accounts, Arg.vault, Arg.fail))

ImportInit ==
    /\ CallIdle
    /\ pin = <<>>
    /\ keys = <<>>
    /\ callIn \in {Some(c) : c \in ImportCalls}
    /\ callOut = None

ImportNext == ImportConfirm

SpecImport == ImportInit /\ [][ImportNext]_vars

\* C32: after an import every two accounts of the vault with the same
\* (issuer, label, secret) were both in the vault before the import.
C32_ImportAddsNoDuplicate ==
    (Returned /\ Arg.cmd = "import_confirm") =>
        \A i \in 1..Len(Result.accounts), j \in 1..Len(Result.accounts) :
            (i < j /\ Triple(Result.accounts[i]) = Triple(Result.accounts[j]))
               => j <= Len(Arg.vault)

\* The lists a reopen with the same key would load after the step.
ReopenedNext == load_payload(files'.live, store'.key, now')

BgStep(sid) == sid \in DOMAIN bg /\ (BgAccept(sid) \/ BgExchange(sid))

\* C34: an accept thread changes the session slot only while the slot holds
\* the session that spawned it, and then leaves that session in the slot:
\* once the slot is empty or holds another session (after sync_cancel, alone
\* or followed by a new sync_start or sync_join), no step of the thread
\* alters the slot.
C34_ThreadWritesOwnSessionOnly ==
    [][\A sid \in 1..MaxSessions :
          (BgStep(sid) /\ slot' # slot) =>
              /\ SlotIs(sid)
              /\ SessionOf(slot') = sid]_vars

\* C34 witness: the thread of a cancelled session is still running while
\* the slot holds the session of a later sync_start, whose own thread is
\* running too.
C34_Witness ==
    /\ 1 \in DOMAIN bg
    /\ 2 \in DOMAIN bg
    /\ SessionOf(slot) = 2
    /\ PhaseOf(slot) = "Exchanging"
    /\ bg[1].pc = "exchange"

(***************************************************************************)
(* SpecConfirms: several sync_confirm calls at once.  Tauri runs each      *)
(* command call on its own thread, so the calls interleave at the locks    *)
(* they take: the slot's lock (lines 1041-1053 and 1124-1126) and the      *)
(* vault's lock (lines 1069-1114).  In this specification cf holds the     *)
(* calls made, numbered in the order in which they lock the slot, and for  *)
(* each session id how many times its pending merge has been taken out of  *)
(* the slot.                                                               *)
(***************************************************************************)
MaxConfirmers == 2

Confirmers == 1..MaxConfirmers

NoActiveSession == "No active sync session"

NoPendingMerge == "No pending merge to confirm"

\* A sync_confirm call that has not locked the slot yet; sid is the session
\* whose pending merge the call holds, 0 while it holds none.
IdleCall == IdleConfirm @@ [sid |-> 0]

\* Option::take that leaves the pending merge where it is.
ClonePending(active) == active

\* line 1050: active.pending.take()
TakePending(active) == [active EXCEPT !.pending = None]

\* The calls before call c have locked the slot.
CfTurn(c) == \A d \in Confirmers : d < c => cf.calls[d].pc # "idle"

\* lines 1041-1053 when the slot holds a pending merge: it is taken out.
CfTake(c) ==
    /\ cf.calls[c].pc = "idle"
    /\ CfTurn(c)
    /\ slot # None
    /\ LET active == unwrap_or(slot, ActiveSync(0, "", None))
           pending == unwrap_or(active.pending, PendingMerge("", EmptyMerge))
       IN  /\ active.pending # None
           /\ slot' = Some(TakePending(active))
           /\ cf' = [cf EXCEPT
                       !.calls[c] = [IdleCall EXCEPT
                                       !.pc = "apply",
                                       !.sid = active.session_id,
                                       !.remote_device_id = pending.remote_device_id,
                                       !.merge_result = Some(pending.merge_result)],
                       !.taken[active.session_id] = @ + 1]
    /\ UNCHANGED <<auxVars, fileVars, hsVars, mergeIn, mergeOut, accounts, tombstones, disk, now, history, sessions, bg,
                   join, minted, peerKnows>>

\* lines 1041-1053 when the slot is empty or holds no pending merge: the
\* `?` returns the error.
CfFail(c) ==
    /\ cf.calls[c].pc = "idle"
    /\ CfTurn(c)
    /\ \/ slot = None
       \/ unwrap_or(slot, ActiveSync(0, "", None)).pending = None
    /\ cf' = [cf EXCEPT !.calls[c] =
                [IdleCall EXCEPT !.pc = "return",
                                 !.err = IF slot = None THEN NoActiveSession ELSE NoPendingMerge]]
    /\ UNCHANGED <<auxVars, fileVars, hsVars, mergeIn, mergeOut, accounts, tombstones, disk, now, history, slot,
                   sessions, bg, join, minted, peerKnows>>

\* lines 1069-1114: the storage calls, made while the vault is locked.
CfApply(c) ==
    /\ cf.calls[c].pc = "apply"
    /\ \E decisions \in DecisionLists(AllIds) :
         LET ops == ConfirmOps(unwrap_or(cf.calls[c].merge_result, EmptyMerge),
                               decision_map(decisions))
         IN  \E failAt \in 0..Len(ops) :
               LET r == ApplyOps([mem |-> Storage, disk |-> disk, err |-> ""],
                                 ops, 1, failAt, now)
               IN  /\ accounts' = r.mem.accounts
                   /\ tombstones' = r.mem.tombstones
                   /\ disk' = r.disk
                   /\ cf' = [cf EXCEPT
                               !.calls[c].pc = IF r.err = "" THEN "history" ELSE "return",
                               !.calls[c].merge_result = None,
                               !.calls[c].err = r.err]
    /\ UNCHANGED <<auxVars, fileVars, hsVars, mergeIn, mergeOut, now, history, slot, sessions, bg, join, minted, peerKnows>>

\* lines 1117-1121: the watermark of the peer is recorded, or the write of
\* the history file fails and is logged.
CfHistory(c) ==
    /\ cf.calls[c].pc = "history"
    /\ \/ history' = [history EXCEPT ![cf.calls[c].remote_device_id] = Some(now)]
       \/ UNCHANGED history
    /\ cf' = [cf EXCEPT !.calls[c].pc = "clear"]
    /\ UNCHANGED <<auxVars, fileVars, hsVars, mergeIn, mergeOut, accounts, tombstones, disk, now, slot, sessions, bg,
                   join, minted, peerKnows>>

\* lines 1124-1126: the slot is emptied.
CfClear(c) ==
    /\ cf.calls[c].pc = "clear"
    /\ slot' = None
    /\ cf' = [cf EXCEPT !.calls[c].pc = "return"]
    /\ UNCHANGED <<auxVars, fileVars, hsVars, mergeIn, mergeOut, accounts, tombstones, disk, now, history, sessions, bg,
                   join, minted, peerKnows>>

\* The call returns Ok(..) or the Err(..) kept in err.
CfReturn(c) ==
    /\ cf.calls[c].pc = "return"
    /\ cf' = [cf EXCEPT !.calls[c] = [IdleCall EXCEPT !.pc = "returned", !.err = cf.calls[c].err]]
    /\ UNCHANGED <<auxVars, fileVars, hsVars, mergeIn, mergeOut, accounts, tombstones, disk, now, history, slot, sessions,
                   bg, join, minted, peerKnows>>

\* A fresh install, and no sync_confirm call in progress.
ConfirmsInit ==
    /\ accounts = <<>>
    /\ tombstones = <<>>
    /\ disk = [accounts |-> <<>>, tombstones |-> <<>>]
    /\ now = 0
    /\ history = [p \in PeerIds |-> None]
    /\ slot = None
    /\ sessions = 0
    /\ bg = <<>>
    /\ join = IdleJoin
    /\ cf = [calls |-> [c \in Confirmers |-> IdleCall], taken |-> [sid \in 1..MaxSessions |-> 0]]
    /\ minted = {}
    /\ peerKnows = {}
    /\ HsIdle
    /\ FileIdle
    /\ AuxIdle
    /\ mergeIn = None
    /\ mergeOut = None

ConfirmsNext ==
    \/ PeerAdd
    \/ SyncStart
    \/ \E sid \in 1..MaxSessions : BgAccept(sid)
    \/ \E sid \in 1..MaxSessions : BgExchange(sid)
    \/ JoinCheck
    \/ JoinExchange
    \/ JoinInstall
    \/ SyncCancel
    \/ \E c \in Confirmers : CfTake(c)
    \/ \E c \in Confirmers : CfFail(c)
    \/ \E c \in Confirmers : CfApply(c)
    \/ \E c \in Confirmers : CfHistory(c)
    \/ \E c \in Confirmers : CfClear(c)
    \/ \E c \in Confirmers : CfReturn(c)

SpecConfirms == ConfirmsInit /\ [][ConfirmsNext]_vars

\* The pending merge the slot holds, None when it is empty or holds none.
PendingOf(s) == unwrap_or(s, ActiveSync(0, "", None)).pending

\* A sync_confirm call that holds a pending merge it took out of the slot.
HoldsMerge(call) == call.pc \in {"apply", "history"}

\* C35: a pending merge is applied to the vault at most once.  No session's
\* pending merge is taken out of the slot twice; a sync_confirm call that
\* locks the slot either takes the pending merge the slot holds, or, when
\* the slot is empty or another call has taken the merge, returns the
\* no-active-session or the no-pending-merge error and changes neither the
\* vault nor the sync history; and the vault and the history change only in
\* a step of a call that holds the merge it took.
C35_PendingAppliedOnce ==
    [][/\ \A sid \in 1..MaxSessions : cf'.taken[sid] <= 1
       /\ \A c \in Confirmers :
            (cf.calls[c].pc = "idle" /\ cf'.calls[c].pc # "idle") =>
               \/ /\ PendingOf(slot) # None
                  /\ PendingOf(slot') = None
                  /\ cf'.calls[c].pc = "apply"
                  /\ cf'.calls[c].sid = SessionOf(slot)
                  /\ \A d \in Confirmers \ {c} : cf.calls[d].sid # SessionOf(slot)
               \/ /\ PendingOf(slot) = None
                  /\ cf'.calls[c].pc = "return"
                  /\ cf'.calls[c].err = (IF slot = None THEN NoActiveSession ELSE NoPendingMerge)
                  /\ UNCHANGED <<accounts, tombstones, disk, history, slot>>
       /\ <<accounts, tombstones, disk, history>>' # <<accounts, tombstones, disk, history>> =>
            \E c \in Confirmers :
               /\ HoldsMerge(cf.calls[c])
               /\ cf'.calls[c].pc # cf.calls[c].pc]_vars

\* C35 witness: two calls for one session: the first has taken the merge,
\* which adds an account, and has applied it; the second locked the slot
\* meanwhile and has failed with the no-pending-merge error.
C35_Witness ==
    /\ cf.calls[1].pc = "history"
    /\ cf.calls[1].sid = 1
    /\ Len(accounts) = 1
    /\ cf.calls[2].pc = "return"
    /\ cf.calls[2].err = NoPendingMerge
    /\ SessionOf(slot) = 1

\* sync_poll that never builds the preview.
SyncPollNoPreview(s) ==
    LET active == unwrap_or(s, ActiveSync(0, "", None))
    IN  IF s = None THEN [err |-> NoActiveSession]
        ELSE [status |-> CASE active.phase = "WaitingForPeer" -> "waiting"
                           [] active.phase = "Exchanging" -> "exchanging"
                           [] active.phase = "MergeReady" -> "merge_ready"
                           [] active.phase = "Completed" -> "completed"
                           [] OTHER -> "error",
              merge_preview |-> None]

\* sync_poll on the slot s, lines 903-947: the status of the phase, and in
\* phase MergeReady the preview of the pending merge if the slot holds one.
SyncPollOf(s) ==
    LET active == unwrap_or(s, ActiveSync(0, "", None))
        pending == unwrap_or(active.pending, PendingMerge("", EmptyMerge))
    IN  IF s = None THEN [err |-> NoActiveSession]
        ELSE [status |-> CASE active.phase = "WaitingForPeer" -> "waiting"
                           [] active.phase = "Exchanging" -> "exchanging"
                           [] active.phase = "MergeReady" -> "merge_ready"
                           [] active.phase = "Completed" -> "completed"
                           [] OTHER -> "error",
              merge_preview |->
                  IF active.phase = "MergeReady" /\ active.pending # None
                    THEN Some(merge_result_to_preview(pending.merge_result))
                    ELSE None]

\* C36 (as stated): in every reachable state a sync_poll that reports
\* merge_ready carries a merge preview.
C36_MergeReadyHasPreview ==
    (slot # None /\ SyncPollOf(slot).status = "merge_ready")
        => SyncPollOf(slot).merge_preview # None

\* C36 (amended): the slot holds a pending merge only in phase MergeReady,
\* and in phase MergeReady it holds one exactly as long as no sync_confirm
\* call has taken it: a sync_poll that reports merge_ready carries the
\* preview of the pending merge before a sync_confirm call takes the merge,
\* and no preview from then on, during the call and after it has failed.
C36_PreviewUntilTaken ==
    slot # None =>
        /\ PendingOf(slot) # None => PhaseOf(slot) = "MergeReady"
        /\ SyncPollOf(slot).status = "merge_ready" =>
              /\ PhaseOf(slot) = "MergeReady"
              /\ (SyncPollOf(slot).merge_preview = None) <=> (cf.taken[SessionOf(slot)] = 1)
              /\ PendingOf(slot) # None =>
                    SyncPollOf(slot).merge_preview =
                        Some(merge_result_to_preview(
                                unwrap_or(PendingOf(slot), PendingMerge("", EmptyMerge)).merge_result))

\* C36 witness: a sync_confirm call took the merge of the session in the
\* slot and has failed in a storage call; the phase is still MergeReady and
\* a sync_poll reports merge_ready without a preview.
C36_Witness ==
    /\ slot # None
    /\ SyncPollOf(slot).status = "merge_ready"
    /\ SyncPollOf(slot).merge_preview = None
    /\ \E c \in Confirmers :
         /\ cf.calls[c].pc = "returned"
         /\ cf.calls[c].err = "Failed to save accounts"
    /\ \A c \in Confirmers : ~HoldsMerge(cf.calls[c])

\* The account of the given id in the list s (the id is in the list).
AccountOf(s, id) == s[Position(s, id)]

\* C37: sync_confirm never replaces a local account by a remote version
\* that is older than the local account is at the moment of replacement:
\* whenever the storage calls of sync_confirm leave an auto-updated remote
\* account in the place of a different local version of it, the remote
\* last_modified is not below the last_modified the local account had when
\* the calls began, also when the vault was edited after the snapshot.
C37_NoOlderRemoteReplacesLocal ==
    [][(cf.pc = "apply" /\ cf'.pc # "apply") =>
          LET auto_updated == unwrap_or(cf.merge_result, EmptyMerge).auto_updated
          IN  \A i \in 1..Len(auto_updated) :
                LET remote == auto_updated[i]
                IN  (/\ Position(accounts, remote.id) # 0
                     /\ Position(accounts', remote.id) # 0
                     /\ AccountOf(accounts', remote.id) = remote
                     /\ AccountOf(accounts, remote.id) # remote)
                      => remote.last_modified >= AccountOf(accounts, remote.id).last_modified]_vars

(***************************************************************************)
(* SpecDevice: the device_id of the vault (storage.rs).  Storage::new      *)
(* takes it from load_payload, which reads it out of a payload of the      *)
(* current format and draws a new uuid in every other case; save writes    *)
(* the device_id of the open Storage into the payload.  A session is the   *)
(* life of one Storage value, from Storage::new to its drop.               *)
(***************************************************************************)
MaxDeviceIds == 3

DeviceKeys == {"k1", "k2"}

\* The vault file as far as the device_id goes: absent, shorter than a
\* nonce, or a payload encrypted under a key: a legacy array of accounts,
\* or a StoragePayload with or without the device_id field.
DevFile(kind, key, device_id) == [kind |-> kind, key |-> key, device_id |-> device_id]

DevAbsent == DevFile("absent", "", None)

DevShort == DevFile("short", "", None)

\* generate_device_id: uuid::Uuid::new_v4, the n-th uuid drawn
generate_device_id(n) == n + 1

\* A load that draws a new uuid whatever the file holds.
load_device_id_fresh(file, key, n) ==
    [device_id |-> generate_device_id(n), generated |-> TRUE,
     unreadable |-> file.kind \notin {"absent", "short"} /\ file.key # key]

\* The device_id Storage::load_payload returns for the file under the key
\* when n uuids have been drawn; unreadable tells that the decryption
\* failed and the file is to be renamed to accounts.enc.bak.
load_device_id(file, key, n) ==
    IF file.kind \in {"absent", "short"}
      THEN [device_id |-> generate_device_id(n), generated |-> TRUE, unreadable |-> FALSE]
    ELSE IF file.key # key
      THEN [device_id |-> generate_device_id(n), generated |-> TRUE, unreadable |-> TRUE]
    ELSE IF file.kind = "v2" /\ file.device_id # None
      THEN [device_id |-> unwrap_or(file.device_id, 0), generated |-> FALSE, unreadable |-> FALSE]
    ELSE [device_id |-> generate_device_id(n), generated |-> TRUE, unreadable |-> FALSE]

\* No Storage value: none was made yet, or the last one was dropped.
\* last[k] is the device_id of the last Storage opened with key k, 0 if
\* there was none.
DevClosed(file, last, uuids) ==
    [file |-> file, open |-> FALSE, key |-> "", device_id |-> 0, last |-> last, uuids |-> uuids]

DevRest == <<pin, keys, conns, callIn, callOut, fileVars, hsVars, restVars>>

\* Storage::new / new_with_key: load_payload, and the rename of a file the
\* key does not decrypt (lines 196-199; a failing rename is logged).
DevOpen ==
    /\ ~device.open
    /\ \E k \in DeviceKeys, rename_ok \in BOOLEAN :
         LET l == load_device_id(device.file, k, device.uuids)
         IN  /\ l.generated => device.uuids < MaxDeviceIds
             /\ device' = [device EXCEPT
                          !.open = TRUE,
                          !.key = k,
                          !.device_id = l.device_id,
                          !.uuids = IF l.generated THEN @ + 1 ELSE @,
                          !.file = IF l.unreadable /\ rename_ok THEN DevAbsent ELSE @]
    /\ UNCHANGED DevRest

\* A mutating operation (add, delete, update, reorder, add_synced,
\* replace_account): its save writes the payload with self.device_id under
\* self.key, or fails and leaves the file.
DevSave ==
    /\ device.open
    /\ \E ok \in BOOLEAN :
         device' = [device EXCEPT !.file = IF ok THEN DevFile("v2", device.key, Some(device.device_id)) ELSE @]
    /\ UNCHANGED DevRest

\* The Storage value is dropped (the application exits).
DevClose ==
    /\ device.open
    /\ device' = [device EXCEPT !.open = FALSE, !.key = "", !.device_id = 0,
                          !.last[device.key] = device.device_id]
    /\ UNCHANGED DevRest

\* What the first start finds at accounts.enc.
DevInitialFiles ==
    {DevAbsent, DevShort}
    \cup {DevFile(kind, k, None) : kind \in {"legacy", "v2"}, k \in DeviceKeys}

DevInit ==
    /\ VaultInit
    /\ HsIdle
    /\ FileIdle
    /\ mergeIn = None
    /\ mergeOut = None
    /\ conns = <<>>
    /\ pin = <<>>
    /\ keys = <<>>
    /\ callIn = None
    /\ callOut = None
    /\ \E f \in DevInitialFiles : device = DevClosed(f, [k \in DeviceKeys |-> 0], 0)

DevNext ==
    \/ DevOpen
    \/ DevSave
    \/ DevClose

SpecDevice == DevInit /\ [][DevNext]_vars

\* The vault is opened with key k, which opened it before.
Reopen(k) == ~device.open /\ device'.open /\ device'.key = k /\ device.last[k] # 0

\* C38 (as stated): reopening the vault with the same key yields the same
\* device_id as before.
C38_DeviceIdStable ==
    [][\A k \in DeviceKeys : Reopen(k) => device'.device_id = device.last[k]]_vars

\* C38 (amended): reopening the vault with the same key yields the same
\* device_id as before exactly when the vault file holds a payload that a
\* save of a Storage with that key and that device_id wrote; a successful
\* save writes the device_id of the open Storage into the file.  Opening a
\* vault whose file is absent, too short, legacy, without a device_id or
\* not decrypted by the key yields a device_id that no earlier open had.
C38_DeviceIdStableOnceSaved ==
    [][/\ \A k \in DeviceKeys :
            Reopen(k) =>
               /\ (device'.device_id = device.last[k])
                     <=> (device.file = DevFile("v2", k, Some(device.last[k])))
               /\ device.file \notin {DevFile("v2", k, Some(d)) : d \in 1..MaxDeviceIds}
                     => /\ device'.device_id > device.uuids
                        /\ \A j \in DeviceKeys : device'.device_id # device.last[j]
       /\ (device.open /\ device'.open /\ device'.file # device.file)
            => device'.file = DevFile("v2", device.key, Some(device.device_id))]_vars

\* C38 witness: the vault was opened, saved, closed and is open again with
\* the same key and the device_id it had before; another uuid has been
\* drawn meanwhile for an open whose device_id was not saved.
C38_Witness ==
    /\ device # <<>>
    /\ device.open
    /\ device.device_id = device.last[device.key]
    /\ device.file = DevFile("v2", device.key, Some(device.device_id))
    /\ device.uuids > device.device_id

(***************************************************************************)
(* SpecConverge: one sync between two devices A and B.  Each has no        *)
(* tombstones and no watermark for the other; the payloads carry the       *)
(* snapshots (sync_start lines 746-751, sync_join lines 973-978), each     *)
(* side merges the other's accounts into its snapshot and sync_confirm     *)
(* applies the merge to the vault, which nobody edits meanwhile.  callIn   *)
(* holds the two vaults before the sync, callOut the vaults, the pending   *)
(* merges and the results of sync_confirm ("" while it has not run).       *)
(***************************************************************************)
MaxVaultLen == 2

ConvMaxTime == 2

ConvIds == {"a", "b"}

Sides == {"A", "B"}

Other(side) == IF side = "A" THEN "B" ELSE "A"

\* The vaults a device can hold: lists of accounts with unique ids.
ConvVaults(issuer) ==
    {s \in UNION {[1..n -> {Account(i, issuer, t) : i \in ConvIds, t \in 0..ConvMaxTime}] :
                    n \in 0..MaxVaultLen} :
        \A i, j \in 1..Len(s) : s[i].id = s[j].id => i = j}

\* ConfirmOps without the loop over the auto-updated accounts.
ConfirmOpsNoUpdate(mr, map) ==
    [i \in 1..Len(mr.to_add) |-> AddSyncedOp(mr.to_add[i])]
    \o ConflictOps(mr.conflicts, map)
    \o DeletionOps(mr.remote_deletions, map)

\* sync_confirm, lines 1075-1111: the storage calls for the merge.
ConvergeOps(mr, map) == ConfirmOps(mr, map)

\* The accept thread of sync_start and sync_join: each side merges the
\* accounts the other sent into its snapshot, with no watermark.
ConvExchange ==
    /\ callIn # None
    /\ callOut = None
    /\ callOut' =
         Some([vault |-> [s \in Sides |-> [accounts |-> Arg[s], tombstones |-> <<>>]],
               pending |-> [s \in Sides |->
                              merge(Arg[s], <<>>, Arg[Other(s)], <<>>, None, <<>>)],
               result |-> [s \in Sides |-> ""]])
    /\ UNCHANGED <<callIn, pin, keys, conns, device, fileVars, hsVars, restVars>>

\* sync_confirm on one side, with any decisions; the save of any storage
\* call may fail.
ConvConfirm(side) ==
    /\ callOut # None
    /\ Result.result[side] = ""
    /\ \E decisions \in DecisionLists({"a"}) :
         LET ops == ConvergeOps(Result.pending[side], decision_map(decisions))
         IN  \E failAt \in 0..Len(ops) :
               LET r == ApplyOps([mem |-> Result.vault[side], disk |-> Result.vault[side],
                                  err |-> ""], ops, 1, failAt, 0)
               IN  callOut' = Some([Result EXCEPT
                                      !.vault[side] = r.mem,
                                      !.result[side] = IF r.err = "" THEN "Ok" ELSE r.err])
    /\ UNCHANGED <<callIn, pin, keys, conns, device, fileVars, hsVars, restVars>>

ConvInit ==
    /\ CallIdle
    /\ pin = <<>>
    /\ keys = <<>>
    /\ callOut = None
    /\ \E va \in ConvVaults("L"), vb \in ConvVaults("R") :
         callIn = Some([cmd |-> "sync", A |-> va, B |-> vb])

ConvNext ==
    \/ ConvExchange
    \/ \E side \in Sides : ConvConfirm(side)

SpecConverge == ConvInit /\ [][ConvNext]_vars

\* The last_modified of the account id in the list s, None if s has none.
ModifiedIn(s, id) ==
    IF Position(s, id) = 0 THEN None ELSE Some(s[Position(s, id)].last_modified)

\* The larger of the values the two vaults held for the id before the sync.
LargerBefore(id) ==
    LET present == ModifiedIn(Arg.A, id) \cup ModifiedIn(Arg.B, id)
    IN  CHOOSE t \in present : \A u \in present : u <= t

\* C39: two devices with unique account ids, no tombstones and no watermark
\* for each other converge after one sync: once sync_confirm has run to its
\* end (returned Ok) on both sides, on the merge computed from the
\* exchanged snapshots and with no vault edit in between, both vaults hold
\* the same set of account ids, each id once, and for each id the same
\* last_modified, the larger of the two values present before the sync.
C39_ConvergeAfterOneSync ==
    (Returned /\ \A s \in Sides : Result.result[s] = "Ok") =>
        LET va == Result.vault.A.accounts
            vb == Result.vault.B.accounts
        IN  /\ Ids(va) = Ids(Arg.A) \cup Ids(Arg.B)
            /\ Ids(vb) = Ids(va)
            /\ Len(va) = Cardinality(Ids(va))
            /\ Len(vb) = Cardinality(Ids(vb))
            /\ \A id \in Ids(va) :
                 /\ ModifiedIn(va, id) = Some(LargerBefore(id))
                 /\ ModifiedIn(vb, id) = Some(LargerBefore(id))

\* C39 witness: both sides have confirmed; before the sync A held an older
\* version of an account of B and an account B did not hold, so B added
\* one account and A replaced one.
C39_Witness ==
    /\ Returned
    /\ \A s \in Sides : Result.result[s] = "Ok"
    /\ Len(Arg.A) = 2
    /\ Len(Arg.B) = 1
    /\ Len(Result.pending.A.auto_updated) = 1
    /\ Len(Result.pending.B.to_add) = 1
    /\ Result.vault.A.accounts # Arg.A
    /\ Len(Result.vault.B.accounts) = 2

====
